---- MODULE Spec2Model ----
(***************************************************************************)
(* mesh-rs: the OrderSync behaviour (pending request table, reply slots,  *)
(* request/response engine events) and the OrderSync messages.            *)
(***************************************************************************)
EXTENDS Integers, Sequences, FiniteSets, TLC

(***************************************************************************)
(* Bounds                                                                  *)
(***************************************************************************)

\* Number of OrderSync::send calls in a behaviour (one reply slot per call).
MaxSends == 3

\* The engine's request id is a u64 counter; the model keeps the counter's
\* wrap-around at a scaled-down width: ids are 0 .. RequestIdModulus-1.
RequestIdModulus == 2

\* Width of the scaled-down signed page counter (i64 in the source).
PageBits == 3

\* Longest orders list of a Response.
MaxOrders == 2

\* Longest metadata list of a Request.
MaxMetadata == 2

\* The most bytes one read of a stream delivers (the block of read_json is
\* 1024 bytes long in the source).
BlockSize == 3

(***************************************************************************)
(* Options and results                                                     *)
(***************************************************************************)

None == [tag |-> "None"]

Some(x) == [tag |-> "Some", value |-> x]

\* std::result::Result<Response, Error>
Ok(response) == [tag |-> "Ok", response |-> response]

Err(error) == [tag |-> "Err", error |-> error]

\* order_sync::Error
UnexpectedRequest == [kind |-> "UnexpectedRequest"]

Dropped == [kind |-> "Dropped"]

QueueFull == [kind |-> "QueueFull"]

OutboundFailure(e) == [kind |-> "OutboundFailure", failure |-> e]

(***************************************************************************)
(* messages.rs                                                             *)
(***************************************************************************)

ZeroAddress == "0x0000000000000000000000000000000000000000"

ZeroHash == "0x0000000000000000000000000000000000000000000000000000000000000000"

SubProtocolV0 == "/pagination-with-filter/version/0"

SubProtocolV1 == "/pagination-with-filter/version/1"

MaxPage == 2 ^ (PageBits - 1) - 1

MinPage == 0 - 2 ^ (PageBits - 1)

\* page + 1 on the fixed-width signed integer, wrapping (overflow checks off).
WrappingAddOne(page) == IF page = MaxPage THEN MinPage ELSE page + 1

OrderFilterDefault ==
    [chain_id |-> 0, custom_order_schema |-> "{}", exchange_address |-> ZeroAddress]

mainnet_v3 ==
    [chain_id |-> 1, custom_order_schema |-> "{}",
     exchange_address |-> "0x61935cbdd02287b511119ddb11aeb42f1593b7ef"]

RequestMetadataV0(snapshot_id, page, order_filter) ==
    [variant |-> "V0", snapshot_id |-> snapshot_id, page |-> page,
     order_filter |-> order_filter]

RequestMetadataV1(min_order_hash, order_filter) ==
    [variant |-> "V1", min_order_hash |-> min_order_hash,
     order_filter |-> order_filter]

ResponseMetadataV0(snapshot_id, page) ==
    [variant |-> "V0", snapshot_id |-> snapshot_id, page |-> page]

ResponseMetadataV1(next_min_order_hash) ==
    [variant |-> "V1", next_min_order_hash |-> next_min_order_hash]

\* From<OrderFilter> listing the older subprotocol first.
RequestFromOrderFilter_oldest_first(order_filter) ==
    [subprotocols |-> <<SubProtocolV0, SubProtocolV1>>,
     metadata |-> <<RequestMetadataV0("", 0, order_filter),
                    RequestMetadataV1(ZeroHash, order_filter)>>]

\* impl From<OrderFilter> for Request
RequestFromOrderFilter(order_filter) ==
    [subprotocols |-> <<SubProtocolV1, SubProtocolV0>>,
     metadata |-> <<RequestMetadataV1(ZeroHash, order_filter),
                    RequestMetadataV0("", 0, order_filter)>>]

\* impl Default for Request
RequestDefault == RequestFromOrderFilter(OrderFilterDefault)

\* impl Default for Response
ResponseDefault ==
    [orders |-> <<>>, complete |-> TRUE, metadata |-> ResponseMetadataV0("", 0)]

\* sub_protocol_name answering the newest subprotocol for every variant.
sub_protocol_name_newest(metadata) == SubProtocolV1

\* RequestMetadata::sub_protocol_name
sub_protocol_name(metadata) ==
    IF metadata.variant = "V0" THEN SubProtocolV0 ELSE SubProtocolV1

\* next_request_metadata starting the next page from a fresh snapshot.
next_request_metadata_fresh(metadata, overflow_checks) ==
    IF metadata.variant = "V0"
    THEN IF overflow_checks /\ metadata.page = MaxPage
         THEN [variant |-> "panic"]
         ELSE RequestMetadataV0("", WrappingAddOne(metadata.page),
                                OrderFilterDefault)
    ELSE RequestMetadataV1(metadata.next_min_order_hash, OrderFilterDefault)

\* ResponseMetadata::next_request_metadata.  With overflow checks on (debug
\* profile) page + 1 panics at the largest page; with overflow checks off
\* (release profile) it wraps.
next_request_metadata(metadata, overflow_checks) ==
    IF metadata.variant = "V0"
    THEN IF overflow_checks /\ metadata.page = MaxPage
         THEN [variant |-> "panic"]
         ELSE RequestMetadataV0(metadata.snapshot_id,
                                WrappingAddOne(metadata.page),
                                OrderFilterDefault)
    ELSE RequestMetadataV1(metadata.next_min_order_hash, OrderFilterDefault)

\* impl From<RequestMetadata> for Request
RequestFromMetadata(metadata) ==
    [subprotocols |-> <<sub_protocol_name(metadata)>>,
     metadata |-> <<metadata>>]

Panic == [tag |-> "Panic"]

\* next_request stopping only at a complete response that carries no orders.
next_request_unless_orders(self, overflow_checks) ==
    IF self.complete /\ self.orders = <<>>
    THEN None
    ELSE LET metadata == next_request_metadata(self.metadata, overflow_checks)
         IN  IF metadata.variant = "panic"
             THEN Panic
             ELSE Some(RequestFromMetadata(metadata))

\* Response::next_request
next_request(self, overflow_checks) ==
    IF self.complete
    THEN None
    ELSE LET metadata == next_request_metadata(self.metadata, overflow_checks)
         IN  IF metadata.variant = "panic"
             THEN Panic
             ELSE Some(RequestFromMetadata(metadata))

\* enum Message, internally tagged by "type"
MessageRequest(request) == [type |-> "Request", body |-> request]

MessageResponse(response) == [type |-> "Response", body |-> response]

(***************************************************************************)
(* The wire encoding: serde_json over the derived Serialize / Deserialize  *)
(* of messages.rs.  A JSON object is a record keyed by the wire names, a   *)
(* JSON array a sequence.                                                  *)
(***************************************************************************)

MapSeq(f(_), seq) == [i \in 1 .. Len(seq) |-> f(seq[i])]

DecodeError == [tag |-> "Err"]

Decoded(value) == [tag |-> "Ok", value |-> value]

HasFields(json, names) == names \subseteq DOMAIN json

\* struct OrderFilter: camelCase, chain_id renamed "chainID".
OrderFilterToJson(order_filter) ==
    [customOrderSchema |-> order_filter.custom_order_schema,
     chainID |-> order_filter.chain_id,
     exchangeAddress |-> order_filter.exchange_address]

OrderFilterFromJson(json) ==
    IF HasFields(json, {"customOrderSchema", "chainID", "exchangeAddress"})
    THEN Decoded([chain_id |-> json.chainID,
                  custom_order_schema |-> json.customOrderSchema,
                  exchange_address |-> json.exchangeAddress])
    ELSE DecodeError

\* struct Order: camelCase throughout, so chain_id is "chainId".
OrderToJson(order) ==
    [chainId |-> order.chain_id,
     exchangeAddress |-> order.exchange_address,
     makerAddress |-> order.maker_address,
     makerAssetData |-> order.maker_asset_data,
     makerFeeAssetData |-> order.maker_fee_asset_data,
     makerAssetAmount |-> order.maker_asset_amount,
     makerFee |-> order.maker_fee,
     takerAddress |-> order.taker_address,
     takerAssetData |-> order.taker_asset_data,
     takerFeeAssetData |-> order.taker_fee_asset_data,
     takerAssetAmount |-> order.taker_asset_amount,
     takerFee |-> order.taker_fee,
     senderAddress |-> order.sender_address,
     feeRecipientAddress |-> order.fee_recipient_address,
     expirationTimeSeconds |-> order.expiration_time_seconds,
     salt |-> order.salt,
     signature |-> order.signature]

OrderWireNames ==
    {"chainId", "exchangeAddress", "makerAddress", "makerAssetData",
     "makerFeeAssetData", "makerAssetAmount", "makerFee", "takerAddress",
     "takerAssetData", "takerFeeAssetData", "takerAssetAmount", "takerFee",
     "senderAddress", "feeRecipientAddress", "expirationTimeSeconds", "salt",
     "signature"}

\* Order read with the chain id under the key the order filter uses.
OrderFromJson_chainID(json) ==
    IF HasFields(json, (OrderWireNames \ {"chainId"}) \cup {"chainID"})
    THEN Decoded([chain_id |-> json.chainID, signature |-> json.signature])
    ELSE DecodeError

OrderFromJson(json) ==
    IF HasFields(json, OrderWireNames)
    THEN Decoded([chain_id |-> json.chainId,
                  exchange_address |-> json.exchangeAddress,
                  maker_address |-> json.makerAddress,
                  maker_asset_data |-> json.makerAssetData,
                  maker_fee_asset_data |-> json.makerFeeAssetData,
                  maker_asset_amount |-> json.makerAssetAmount,
                  maker_fee |-> json.makerFee,
                  taker_address |-> json.takerAddress,
                  taker_asset_data |-> json.takerAssetData,
                  taker_fee_asset_data |-> json.takerFeeAssetData,
                  taker_asset_amount |-> json.takerAssetAmount,
                  taker_fee |-> json.takerFee,
                  sender_address |-> json.senderAddress,
                  fee_recipient_address |-> json.feeRecipientAddress,
                  expiration_time_seconds |-> json.expirationTimeSeconds,
                  salt |-> json.salt,
                  signature |-> json.signature])
    ELSE DecodeError

\* A sequence decodes when each of its elements does.
AllDecoded(results) == \A i \in 1 .. Len(results) : results[i].tag = "Ok"

Values(results) == [i \in 1 .. Len(results) |-> results[i].value]

\* enum RequestMetadata, untagged: a variant is written as its fields alone.
RequestMetadataToJson(metadata) ==
    IF metadata.variant = "V0"
    THEN [snapshotID |-> metadata.snapshot_id,
          page |-> metadata.page,
          orderfilter |-> OrderFilterToJson(metadata.order_filter)]
    ELSE [minOrderHash |-> metadata.min_order_hash,
          orderfilter |-> OrderFilterToJson(metadata.order_filter)]

\* RequestMetadata read with the snapshot id of a V0 entry left empty.
RequestMetadataFromJson_no_snapshot(json) ==
    LET order_filter == IF HasFields(json, {"orderfilter"})
                        THEN OrderFilterFromJson(json.orderfilter)
                        ELSE DecodeError
    IN  IF HasFields(json, {"page"}) /\ order_filter.tag = "Ok"
        THEN Decoded(RequestMetadataV0("", json.page, order_filter.value))
        ELSE IF HasFields(json, {"minOrderHash"}) /\ order_filter.tag = "Ok"
        THEN Decoded(RequestMetadataV1(json.minOrderHash, order_filter.value))
        ELSE DecodeError

\* Untagged: the variants are tried in declaration order, V0 first, and the
\* first whose fields are all present and decode is taken.
RequestMetadataFromJson(json) ==
    LET order_filter == IF HasFields(json, {"orderfilter"})
                        THEN OrderFilterFromJson(json.orderfilter)
                        ELSE DecodeError
    IN  IF HasFields(json, {"snapshotID", "page"}) /\ order_filter.tag = "Ok"
        THEN Decoded(RequestMetadataV0(json.snapshotID, json.page,
                                       order_filter.value))
        ELSE IF HasFields(json, {"minOrderHash"}) /\ order_filter.tag = "Ok"
        THEN Decoded(RequestMetadataV1(json.minOrderHash, order_filter.value))
        ELSE DecodeError

\* enum ResponseMetadata, adjacently tagged: the variant's wire name under
\* "subprotocol", its fields under "metadata".
ResponseMetadataTag(metadata) ==
    IF metadata.variant = "V0"
    THEN "/pagination-with-filter/version/0"
    ELSE "/pagination-with-filter/version/1"

ResponseMetadataContent(metadata) ==
    IF metadata.variant = "V0"
    THEN [snapshotID |-> metadata.snapshot_id, page |-> metadata.page]
    ELSE [nextMinOrderHash |-> metadata.next_min_order_hash]

ResponseMetadataFromJson(json) ==
    IF ~HasFields(json, {"subprotocol", "metadata"})
    THEN DecodeError
    ELSE IF json.subprotocol = "/pagination-with-filter/version/0"
    THEN IF HasFields(json.metadata, {"snapshotID", "page"})
         THEN Decoded(ResponseMetadataV0(json.metadata.snapshotID,
                                         json.metadata.page))
         ELSE DecodeError
    ELSE IF json.subprotocol = "/pagination-with-filter/version/1"
    THEN IF HasFields(json.metadata, {"nextMinOrderHash"})
         THEN Decoded(ResponseMetadataV1(json.metadata.nextMinOrderHash))
         ELSE DecodeError
    ELSE DecodeError

\* struct Request inside Message: the tag "type" beside the struct's fields;
\* the metadata list sits in the RequestMetadataContainer wrapper.
RequestToJson(request) ==
    [type |-> "Request",
     subprotocols |-> request.subprotocols,
     metadata |-> [metadata |-> MapSeq(RequestMetadataToJson, request.metadata)]]

RequestFromJson(json) ==
    IF ~HasFields(json, {"subprotocols", "metadata"})
    THEN DecodeError
    ELSE IF ~HasFields(json.metadata, {"metadata"})
    THEN DecodeError
    ELSE LET metadata == MapSeq(RequestMetadataFromJson, json.metadata.metadata)
         IN  IF AllDecoded(metadata)
             THEN Decoded([subprotocols |-> json.subprotocols,
                           metadata |-> Values(metadata)])
             ELSE DecodeError

\* struct Response inside Message: the tag "type", the struct's own fields,
\* and the flattened metadata's "subprotocol" and "metadata" in one object.
ResponseToJson(response) ==
    [type |-> "Response",
     orders |-> MapSeq(OrderToJson, response.orders),
     complete |-> response.complete,
     subprotocol |-> ResponseMetadataTag(response.metadata),
     metadata |-> ResponseMetadataContent(response.metadata)]

ResponseFromJson(json) ==
    IF ~HasFields(json, {"orders", "complete"})
    THEN DecodeError
    ELSE LET orders   == MapSeq(OrderFromJson, json.orders)
             metadata == ResponseMetadataFromJson(json)
         IN  IF AllDecoded(orders) /\ metadata.tag = "Ok"
             THEN Decoded([orders |-> Values(orders),
                           complete |-> json.complete,
                           metadata |-> metadata.value])
             ELSE DecodeError

\* serde_json::to_vec(&Message)
ToJson(message) ==
    IF message.type = "Request"
    THEN RequestToJson(message.body)
    ELSE ResponseToJson(message.body)

\* serde_json::from_slice::<Message>
FromJson(json) ==
    IF ~HasFields(json, {"type"})
    THEN DecodeError
    ELSE IF json.type = "Request"
    THEN LET request == RequestFromJson(json)
         IN  IF request.tag = "Ok"
             THEN Decoded(MessageRequest(request.value))
             ELSE DecodeError
    ELSE IF json.type = "Response"
    THEN LET decoded_response == ResponseFromJson(json)
         IN  IF decoded_response.tag = "Ok"
             THEN Decoded(MessageResponse(decoded_response.value))
             ELSE DecodeError
    ELSE DecodeError

(***************************************************************************)
(* The JSON text: what serde_json::to_vec writes for a Message, byte by    *)
(* byte, and what serde_json::de::from_slice makes of a buffer.  A buffer  *)
(* is a string; the texts written hold no white space and no escape.       *)
(***************************************************************************)

Byte(bytes, i) == SubSeq(bytes, i, i)

Min(a, b) == IF a < b THEN a ELSE b

JsonString(str) == "\"" \o str \o "\""

JsonNumber(n) == ToString(n)

JsonBool(b) == IF b THEN "true" ELSE "false"

RECURSIVE JoinTexts(_)
JoinTexts(texts) ==
    IF texts = <<>>
    THEN ""
    ELSE IF Len(texts) = 1
    THEN texts[1]
    ELSE texts[1] \o "," \o JoinTexts(Tail(texts))

JsonArray(texts) == "[" \o JoinTexts(texts) \o "]"

JsonMember(name, text) == JsonString(name) \o ":" \o text

JsonObject(members) == "{" \o JoinTexts(members) \o "}"

\* The fields are written in the order of their declaration.
OrderFilterText(order_filter) ==
    JsonObject(<<JsonMember("customOrderSchema",
                            JsonString(order_filter.custom_order_schema)),
                 JsonMember("chainID", JsonNumber(order_filter.chain_id)),
                 JsonMember("exchangeAddress",
                            JsonString(order_filter.exchange_address))>>)

OrderText(order) ==
    JsonObject(<<JsonMember("chainId", JsonNumber(order.chain_id)),
                 JsonMember("exchangeAddress", JsonString(order.exchange_address)),
                 JsonMember("makerAddress", JsonString(order.maker_address)),
                 JsonMember("makerAssetData", JsonString(order.maker_asset_data)),
                 JsonMember("makerFeeAssetData",
                            JsonString(order.maker_fee_asset_data)),
                 JsonMember("makerAssetAmount",
                            JsonString(order.maker_asset_amount)),
                 JsonMember("makerFee", JsonString(order.maker_fee)),
                 JsonMember("takerAddress", JsonString(order.taker_address)),
                 JsonMember("takerAssetData", JsonString(order.taker_asset_data)),
                 JsonMember("takerFeeAssetData",
                            JsonString(order.taker_fee_asset_data)),
                 JsonMember("takerAssetAmount",
                            JsonString(order.taker_asset_amount)),
                 JsonMember("takerFee", JsonString(order.taker_fee)),
                 JsonMember("senderAddress", JsonString(order.sender_address)),
                 JsonMember("feeRecipientAddress",
                            JsonString(order.fee_recipient_address)),
                 JsonMember("expirationTimeSeconds",
                            JsonString(order.expiration_time_seconds)),
                 JsonMember("salt", JsonString(order.salt)),
                 JsonMember("signature", JsonString(order.signature))>>)

RequestMetadataText(metadata) ==
    IF metadata.variant = "V0"
    THEN JsonObject(<<JsonMember("snapshotID", JsonString(metadata.snapshot_id)),
                      JsonMember("page", JsonNumber(metadata.page)),
                      JsonMember("orderfilter",
                                 OrderFilterText(metadata.order_filter))>>)
    ELSE JsonObject(<<JsonMember("minOrderHash",
                                 JsonString(metadata.min_order_hash)),
                      JsonMember("orderfilter",
                                 OrderFilterText(metadata.order_filter))>>)

ResponseMetadataText(metadata) ==
    IF metadata.variant = "V0"
    THEN JsonObject(<<JsonMember("snapshotID", JsonString(metadata.snapshot_id)),
                      JsonMember("page", JsonNumber(metadata.page))>>)
    ELSE JsonObject(<<JsonMember("nextMinOrderHash",
                                 JsonString(metadata.next_min_order_hash))>>)

RequestText(request) ==
    JsonObject(<<JsonMember("type", JsonString("Request")),
                 JsonMember("subprotocols",
                            JsonArray(MapSeq(JsonString, request.subprotocols))),
                 JsonMember("metadata",
                            JsonObject(<<JsonMember("metadata",
                                JsonArray(MapSeq(RequestMetadataText,
                                                 request.metadata)))>>))>>)

ResponseText(response) ==
    JsonObject(<<JsonMember("type", JsonString("Response")),
                 JsonMember("orders", JsonArray(MapSeq(OrderText, response.orders))),
                 JsonMember("complete", JsonBool(response.complete)),
                 JsonMember("subprotocol",
                            JsonString(ResponseMetadataTag(response.metadata))),
                 JsonMember("metadata", ResponseMetadataText(response.metadata))>>)

\* serde_json::to_vec(&Message), as bytes
to_vec(message) ==
    IF message.type = "Request"
    THEN RequestText(message.body)
    ELSE ResponseText(message.body)

Digits == {"0", "1", "2", "3", "4", "5", "6", "7", "8", "9"}

DigitValue(digit) ==
    CASE digit = "0" -> 0 [] digit = "1" -> 1 [] digit = "2" -> 2 [] digit = "3" -> 3
      [] digit = "4" -> 4 [] digit = "5" -> 5 [] digit = "6" -> 6 [] digit = "7" -> 7
      [] digit = "8" -> 8 [] digit = "9" -> 9

\* The outcomes of parsing a value that starts at a position of the buffer:
\* the value with its kind and the position after it, the end of the buffer
\* reached inside the value, or a byte that cannot continue it.
Parsed(kind, value, pos) == [tag |-> "Ok", kind |-> kind, value |-> value, pos |-> pos]

EofWhileParsing == [tag |-> "Eof"]

SyntaxError == [tag |-> "Syntax"]

\* The position of the quote that closes a string, 0 when the buffer ends
\* before it.
RECURSIVE ScanString(_, _)
ScanString(bytes, i) ==
    IF i > Len(bytes)
    THEN 0
    ELSE IF Byte(bytes, i) = "\""
    THEN i
    ELSE ScanString(bytes, i + 1)

RECURSIVE ScanDigits(_, _, _)
ScanDigits(bytes, i, value) ==
    IF i <= Len(bytes) /\ Byte(bytes, i) \in Digits
    THEN ScanDigits(bytes, i + 1, value * 10 + DigitValue(Byte(bytes, i)))
    ELSE [value |-> value, pos |-> i]

\* true, false and null: the end of the buffer inside the word is an EOF
\* error, another byte a syntax error.
ParseLiteral(bytes, i, word, kind, value) ==
    LET have == SubSeq(bytes, i, Min(Len(bytes), i + Len(word) - 1))
    IN  IF have = word
        THEN Parsed(kind, value, i + Len(word))
        ELSE IF Len(have) < Len(word) /\ have = SubSeq(word, 1, Len(have))
        THEN EofWhileParsing
        ELSE SyntaxError

\* An integer: an optional minus, then 0 or a run of digits.
ParseNumber(bytes, i) ==
    LET negative == Byte(bytes, i) = "-"
        start    == IF negative THEN i + 1 ELSE i
    IN  IF start > Len(bytes)
        THEN EofWhileParsing
        ELSE IF Byte(bytes, start) \notin Digits
        THEN SyntaxError
        ELSE IF Byte(bytes, start) = "0"
        THEN Parsed("number", 0, start + 1)
        ELSE LET digits == ScanDigits(bytes, start, 0)
             IN  Parsed("number",
                        IF negative THEN 0 - digits.value ELSE digits.value,
                        digits.pos)

RECURSIVE ParseValue(_, _), ParseElements(_, _, _), ParseMembers(_, _, _)

ParseValue(bytes, i) ==
    IF i > Len(bytes)
    THEN EofWhileParsing
    ELSE LET byte == Byte(bytes, i)
         IN  IF byte = "{"
             THEN IF i + 1 > Len(bytes)
                  THEN EofWhileParsing
                  ELSE IF Byte(bytes, i + 1) = "}"
                  THEN Parsed("object", <<>>, i + 2)
                  ELSE ParseMembers(bytes, i + 1, <<>>)
             ELSE IF byte = "["
             THEN IF i + 1 > Len(bytes)
                  THEN EofWhileParsing
                  ELSE IF Byte(bytes, i + 1) = "]"
                  THEN Parsed("array", <<>>, i + 2)
                  ELSE ParseElements(bytes, i + 1, <<>>)
             ELSE IF byte = "\""
             THEN LET close == ScanString(bytes, i + 1)
                  IN  IF close = 0
                      THEN EofWhileParsing
                      ELSE Parsed("string", SubSeq(bytes, i + 1, close - 1), close + 1)
             ELSE IF byte = "t"
             THEN ParseLiteral(bytes, i, "true", "bool", TRUE)
             ELSE IF byte = "f"
             THEN ParseLiteral(bytes, i, "false", "bool", FALSE)
             ELSE IF byte = "n"
             THEN ParseLiteral(bytes, i, "null", "null", None)
             ELSE IF byte = "-" \/ byte \in Digits
             THEN ParseNumber(bytes, i)
             ELSE SyntaxError

\* The elements of an array from the start of an element on: each is
\* followed by a comma or by the closing bracket.
ParseElements(bytes, i, elements) ==
    LET element == ParseValue(bytes, i)
    IN  IF element.tag # "Ok"
        THEN element
        ELSE IF element.pos > Len(bytes)
        THEN EofWhileParsing
        ELSE IF Byte(bytes, element.pos) = ","
        THEN ParseElements(bytes, element.pos + 1, Append(elements, element.value))
        ELSE IF Byte(bytes, element.pos) = "]"
        THEN Parsed("array", Append(elements, element.value), element.pos + 1)
        ELSE SyntaxError

\* The members of an object from the start of a name on: a name, a colon, a
\* value, then a comma or the closing brace.
ParseMembers(bytes, i, members) ==
    IF i > Len(bytes)
    THEN EofWhileParsing
    ELSE IF Byte(bytes, i) # "\""
    THEN SyntaxError
    ELSE LET close == ScanString(bytes, i + 1)
         IN  IF close = 0 \/ close + 1 > Len(bytes)
             THEN EofWhileParsing
             ELSE IF Byte(bytes, close + 1) # ":"
             THEN SyntaxError
             ELSE LET member == ParseValue(bytes, close + 2)
                      name   == SubSeq(bytes, i + 1, close - 1)
                      object == [n \in DOMAIN members \cup {name} |->
                                    IF n = name THEN member.value ELSE members[n]]
                  IN  IF member.tag # "Ok"
                      THEN member
                      ELSE IF member.pos > Len(bytes)
                      THEN EofWhileParsing
                      ELSE IF Byte(bytes, member.pos) = ","
                      THEN ParseMembers(bytes, member.pos + 1, object)
                      ELSE IF Byte(bytes, member.pos) = "}"
                      THEN Parsed("object", object, member.pos + 1)
                      ELSE SyntaxError

\* serde_json::Error: its category, which is_eof() tests.
JsonError(category) == [tag |-> "Err", category |-> category]

\* serde_json::de::from_slice::<Message>(&buffer): the one value of the
\* buffer is parsed, bytes after it are an error, and the object is then
\* read as a Message.
from_slice(bytes) ==
    LET parsed == ParseValue(bytes, 1)
    IN  IF parsed.tag = "Eof"
        THEN JsonError("Eof")
        ELSE IF parsed.tag = "Syntax" \/ parsed.pos <= Len(bytes)
        THEN JsonError("Syntax")
        ELSE IF parsed.kind # "object"
        THEN JsonError("Data")
        ELSE LET message == FromJson(parsed.value)
             IN  IF message.tag = "Ok" THEN message ELSE JsonError("Data")

(***************************************************************************)
(* Input sets                                                              *)
(***************************************************************************)

\* struct Order: two sample orders that differ in every field.
Order(chain_id, n) ==
    [chain_id |-> chain_id,
     exchange_address |-> "exchange" \o n,
     maker_address |-> "maker" \o n,
     maker_asset_data |-> "makerAsset" \o n,
     maker_fee_asset_data |-> "makerFeeAsset" \o n,
     maker_asset_amount |-> "makerAmount" \o n,
     maker_fee |-> "makerFee" \o n,
     taker_address |-> "taker" \o n,
     taker_asset_data |-> "takerAsset" \o n,
     taker_fee_asset_data |-> "takerFeeAsset" \o n,
     taker_asset_amount |-> "takerAmount" \o n,
     taker_fee |-> "takerFee" \o n,
     sender_address |-> "sender" \o n,
     fee_recipient_address |-> "feeRecipient" \o n,
     expiration_time_seconds |-> "expiration" \o n,
     salt |-> "salt" \o n,
     signature |-> "signature" \o n]

Order1 == Order(1, "1")

Order2 == Order(4, "2")

Orders == {Order1, Order2}

RECURSIVE SeqsUpTo(_, _)
SeqsUpTo(S, n) ==
    IF n = 0
    THEN {<<>>}
    ELSE LET shorter == SeqsUpTo(S, n - 1)
         IN  shorter \cup {Append(q, x) : q \in {t \in shorter : Len(t) = n - 1}, x \in S}

OrderLists == SeqsUpTo(Orders, MaxOrders)

SnapshotIds == {"", "abc"}

Pages == {0, 1, MaxPage - 1, MaxPage}

OrderHashes == {ZeroHash, "0x01"}

ResponseMetadatas ==
    {ResponseMetadataV0(s, p) : s \in SnapshotIds, p \in Pages}
    \cup {ResponseMetadataV1(h) : h \in OrderHashes}

Responses ==
    {[orders |-> o, complete |-> c, metadata |-> m] :
        o \in OrderLists, c \in BOOLEAN, m \in ResponseMetadatas}

\* Messages the request/response engine hands to inject_event.
EventMessages ==
    {MessageRequest(RequestDefault),
     MessageResponse(ResponseDefault),
     MessageResponse([orders |-> <<Order1>>, complete |-> FALSE,
                      metadata |-> ResponseMetadataV1("0x01")])}

Peers == {"peer1", "peer2"}

\* Requests a caller passes to send.
SendRequests == {RequestDefault}

\* libp2p::request_response::OutboundFailure
OutboundFailures == {"Timeout", "ConnectionClosed"}

\* libp2p::request_response::InboundFailure
InboundFailures == {"Timeout", "ResponseOmission"}

RequestIds == 0 .. RequestIdModulus - 1

(***************************************************************************)
(* State                                                                   *)
(***************************************************************************)

VARIABLES
    next_request_id,   \* the engine's request id counter
    request_frames,    \* number of requests handed to the engine (send_request)
    response_frames,   \* number of responses handed to the engine (send_response)
    pending_requests,  \* HashMap<RequestId, oneshot::Sender<Result>>
    slots,             \* the oneshot channels created so far, by index
    delivered,         \* per slot, the number of results stored into it
    event,             \* the operation handled last, with what it did
    returned,          \* per slot, the request id send obtained for it
    awaiting,          \* slots whose request id has had no Response or
                       \* OutboundFailure event since their send
    response,          \* input of the message operations
    derived,           \* output of the message operations
    previous_request,  \* the request sent before response was received
    encoded,           \* the JSON a message was written as
    decoded,           \* the outcome of reading encoded back
    nodes_info,        \* Discovery's HashMap<PeerId, PeerInfo>
    fetch,             \* the drain task of run(): where it is, and its locals
    mailbox,           \* the requests queued in the mpsc channel of Node
    parked,            \* the mpsc Senders parked until the Receiver takes a message
    rpc_log,           \* the calls the drain task has made, in order
    sink,              \* what has been written to order.json
    calls,             \* per cloned OrderSyncRpc handle, its call in progress
    run_loop,          \* the main loop of run(): "select" until it breaks
    read_lock,         \* the drain task holds the read lock of the known-peer table
    my_behaviour,      \* MyBehaviour: requesting, the requests sent, the identify payloads received
    order_sync_receiver,  \* "open" until the Node, the mailbox consumer, is dropped
    bootstrap_query_id,   \* Discovery's Option<QueryId>
    kademlia,          \* Kademlia: the next query id, the addresses added to it
    gossipsub,         \* Gossipsub: the topics subscribed to, the messages published
    behaviour_event,   \* the call or swarm event the behaviour stack handled last
    io,                \* the bytes a stream has still to deliver
    buffer,            \* the buffer of read_json
    read,              \* what read_json has returned, None while it is reading
    written            \* the message whose encoding was written to the stream

vars == <<next_request_id, request_frames, response_frames, pending_requests, slots,
          delivered, event, returned, awaiting, response, derived,
          previous_request, encoded, decoded, nodes_info, fetch, mailbox, parked,
          rpc_log, sink, calls, run_loop, read_lock, my_behaviour, order_sync_receiver,
          bootstrap_query_id,
          kademlia, gossipsub, behaviour_event, io, buffer, read, written>>

order_sync_vars == <<next_request_id, request_frames, response_frames,
                     pending_requests, slots, delivered, event, returned,
                     awaiting>>

message_vars == <<response, derived, previous_request, encoded, decoded>>

behaviour_vars == <<bootstrap_query_id, kademlia, gossipsub, behaviour_event>>

codec_vars == <<io, buffer, read, written>>

\* The state outside OrderSync, the messages, the peer table and the drain
\* task.
stack_vars == <<run_loop, read_lock, my_behaviour, order_sync_receiver, behaviour_vars,
               codec_vars>>

node_vars == <<nodes_info, fetch, mailbox, parked, rpc_log, sink, calls, stack_vars>>

Unset == [tag |-> "Unset"]

NoPayload == [type |-> "None"]

NoSlot == 0

NoPeer == "none"

\* The record kept of the operation handled last: its inputs (the peer only
\* for send; inject_event uses the peer of an engine event in log lines only),
\* the sender it took from the pending table (NoSlot if none), the result it
\* passed to Sender::send, whether that send succeeded, and the level it
\* logged at.
Event(kind, peer, request_id, payload, slot, result, send_ok, log) ==
    [kind |-> kind, peer |-> peer, request_id |-> request_id,
     payload |-> payload, slot |-> slot, result |-> result,
     send_ok |-> send_ok, log |-> log]

\* oneshot::channel()
NewChannel == [tx |-> "alive", rx |-> "waiting", value |-> None]

\* Dropping a oneshot::Sender that was never used.
DropSender(channel) == [channel EXCEPT !.tx = "dropped"]

\* oneshot::Sender::send succeeds unless the Receiver has been dropped.
SenderSendOk(channel) == channel.rx # "dropped"

\* oneshot::Sender::send consumes the sender and stores the value when the
\* Receiver is still there; otherwise the value is handed back and discarded.
SenderSend(channel, result) ==
    IF SenderSendOk(channel)
    THEN [channel EXCEPT !.tx = "sent", !.value = Some(result)]
    ELSE [channel EXCEPT !.tx = "sent"]

\* HashMap::insert: the new value replaces the one stored under the key.
HashMapInsert(map, key, value) ==
    [k \in DOMAIN map \cup {key} |-> IF k = key THEN value ELSE map[k]]

\* HashMap::remove
HashMapRemove(map, key) == [k \in DOMAIN map \ {key} |-> map[k]]

\* The OrderSyncRpc handles cloned for callers other than the drain task,
\* and the handle the drain task owns.
Handles == {"rpc1", "rpc2"}

FetchHandle == "fetch"

\* A handle with no call in progress; result is what its last call returned.
IdleCall(result) ==
    [pc |-> "idle", peer_id |-> NoPeer, request |-> NoPayload, slot |-> NoSlot,
     result |-> result]

\* The drain task: pc is the await point it is suspended at ("find" before
\* its first poll, "sleep", "await" inside OrderSyncRpc::call) or how it ended
\* ("done", "failed", "panicked"); "none" when no drain task exists.
FetchTask(pc, peer_id, orders, slot, result, overflow_checks) ==
    [pc |-> pc, peer_id |-> peer_id, orders |-> orders, slot |-> slot,
     result |-> result, overflow_checks |-> overflow_checks]

\* The bootstrap nodes, as (peer, address) pairs.
BOOTNODES ==
    {<<"16Uiu2HAmGx8Z6gdq5T5AQE54GMtqDhDFhizywTy1o28NJbAMMumF",
       "/dns4/bootstrap-0.mesh.0x.org/tcp/60558">>,
     <<"16Uiu2HAkwsDZk4LzXy2rnWANRsyBjB4fhjnsNeJmjgsBqxPGTL32",
       "/dns4/bootstrap-1.mesh.0x.org/tcp/60558">>,
     <<"16Uiu2HAkykwoBxwyvoEbaEkuKMeKrmJDPZ2uKFPUKtqd2JbGHUNH",
       "/dns4/bootstrap-2.mesh.0x.org/tcp/60558">>}

\* What the behaviour stack handled last: a call of start or a swarm event,
\* with its peer and its payload.
BehaviourEvent(kind, peer, payload) ==
    [kind |-> kind, peer |-> peer, payload |-> payload]

\* Behaviour::new: Discovery::new adds the bootstrap nodes to Kademlia and
\* remembers no query; PubSub::new subscribes to nothing.
BehaviourNew ==
    /\ bootstrap_query_id = None
    /\ kademlia = [next_query_id |-> 0, addresses |-> BOOTNODES]
    /\ gossipsub = [subscriptions |-> {}, published |-> <<>>]
    /\ behaviour_event = BehaviourEvent("new", NoPeer, NoPayload)

\* No stream is being read.
NoStream ==
    /\ io = ""
    /\ buffer = ""
    /\ read = None
    /\ written = None

\* MyBehaviour::new: no request made yet.  received is the history of the
\* identify payloads handled so far.
MyBehaviourNew ==
    my_behaviour = [requesting |-> FALSE, requests |-> <<>>, received |-> <<>>]

\* Node::new and Discovery::new: an empty peer table and an empty mailbox;
\* nothing written to order.json.
NodeNew ==
    /\ nodes_info = [p \in {} |-> None]
    /\ mailbox = <<>>
    /\ parked = <<>>
    /\ rpc_log = <<>>
    /\ sink = None
    /\ calls = [h \in Handles |-> IdleCall(None)]
    /\ run_loop = "select"
    /\ read_lock = FALSE
    /\ MyBehaviourNew
    /\ order_sync_receiver = "open"
    /\ BehaviourNew

\* OrderSync::new: no pending request; the engine has issued no id.
OrderSyncInit ==
    /\ next_request_id = 1 % RequestIdModulus
    /\ request_frames = 0
    /\ response_frames = 0
    /\ pending_requests = [k \in {} |-> NoSlot]
    /\ slots = <<>>
    /\ delivered = <<>>
    /\ event = Event("new", NoPeer, 0, NoPayload, NoSlot, None, FALSE, "none")
    /\ returned = <<>>
    /\ awaiting = {}

Init ==
    /\ OrderSyncInit
    /\ response = ResponseDefault
    /\ derived = Unset
    /\ previous_request = RequestDefault
    /\ encoded = Unset
    /\ decoded = Unset
    /\ NodeNew
    /\ NoStream
    /\ fetch = FetchTask("none", NoPeer, <<>>, NoSlot, None, FALSE)

(***************************************************************************)
(* order_sync/mod.rs                                                       *)
(***************************************************************************)

\* RequestResponse::send_request: the id handed out is the counter's value,
\* and the counter advances by one (wrapping at its width).
send_request_id == next_request_id

AdvanceRequestId(id) == (id + 1) % RequestIdModulus

\* OrderSync::send.  sender is the index of the caller's oneshot channel in
\* channels, the channels that exist when send is called.
send(peer_id, request, sender, channels) ==
    LET message    == MessageRequest(request)
        request_id == send_request_id
        existing   == IF request_id \in DOMAIN pending_requests
                      THEN pending_requests[request_id]
                      ELSE NoSlot
    IN  /\ next_request_id' = AdvanceRequestId(next_request_id)
        /\ request_frames' = request_frames + 1
        /\ pending_requests' = HashMapInsert(pending_requests, request_id, sender)
        /\ slots' = IF existing # NoSlot
                    THEN [channels EXCEPT ![existing] = DropSender(@)]
                    ELSE channels
        /\ event' = Event("send", peer_id, request_id, message, existing, None, FALSE,
                          IF existing # NoSlot THEN "error" ELSE "none")
        /\ UNCHANGED <<response_frames, message_vars>>

\* The Request arm answering the incoming request with a response frame.
inject_event_Request_reply(request_id, request) ==
    /\ event' = Event("Request", NoPeer, request_id, request, NoSlot, None, FALSE,
                      IF request.type = "Request" THEN "error" ELSE "warn")
    /\ response_frames' = IF request.type = "Request"
                          THEN response_frames + 1
                          ELSE response_frames
    /\ UNCHANGED <<next_request_id, request_frames, pending_requests, slots,
                   delivered, message_vars>>

\* inject_event, arm RequestResponseMessage::Request: an incoming request is
\* logged and its response channel is dropped unanswered.
inject_event_Request(request_id, request) ==
    /\ event' = Event("Request", NoPeer, request_id, request, NoSlot, None, FALSE,
                      IF request.type = "Request" THEN "error" ELSE "warn")
    /\ UNCHANGED <<next_request_id, request_frames, response_frames, pending_requests,
                   slots, delivered, message_vars>>

\* The Response arm looking the sender up without taking it out of the table.
inject_event_Response_get(request_id, message) ==
    IF request_id \notin DOMAIN pending_requests
    THEN /\ event' = Event("Response", NoPeer, request_id, message, NoSlot, None, FALSE,
                           "error")
         /\ UNCHANGED <<next_request_id, request_frames, response_frames,
                        pending_requests, slots, delivered, message_vars>>
    ELSE LET sender == pending_requests[request_id]
             result == IF message.type = "Request"
                       THEN Err(UnexpectedRequest)
                       ELSE Ok(message.body)
             ok     == SenderSendOk(slots[sender])
         IN  /\ pending_requests' = pending_requests
             /\ slots' = [slots EXCEPT ![sender] = SenderSend(@, result)]
             /\ delivered' = [delivered EXCEPT ![sender] = IF ok THEN @ + 1 ELSE @]
             /\ event' = Event("Response", NoPeer, request_id, message, sender, result, ok,
                               IF ok THEN "none" ELSE "warn")
             /\ UNCHANGED <<next_request_id, request_frames, response_frames,
                            message_vars>>

\* The Response arm handing the caller a default Response instead of the
\* one received.
inject_event_Response_default(request_id, message) ==
    IF request_id \notin DOMAIN pending_requests
    THEN /\ event' = Event("Response", NoPeer, request_id, message, NoSlot, None, FALSE,
                           "error")
         /\ UNCHANGED <<next_request_id, request_frames, response_frames,
                        pending_requests, slots, delivered, message_vars>>
    ELSE LET sender == pending_requests[request_id]
             result == IF message.type = "Request"
                       THEN Err(UnexpectedRequest)
                       ELSE Ok(ResponseDefault)
             ok     == SenderSendOk(slots[sender])
         IN  /\ pending_requests' = HashMapRemove(pending_requests, request_id)
             /\ slots' = [slots EXCEPT ![sender] = SenderSend(@, result)]
             /\ delivered' = [delivered EXCEPT ![sender] = IF ok THEN @ + 1 ELSE @]
             /\ event' = Event("Response", NoPeer, request_id, message, sender, result, ok,
                               IF ok THEN "none" ELSE "warn")
             /\ UNCHANGED <<next_request_id, request_frames, response_frames,
                            message_vars>>

\* The Response arm treating a Request payload as an empty response.
inject_event_Response_lenient(request_id, message) ==
    IF request_id \notin DOMAIN pending_requests
    THEN /\ event' = Event("Response", NoPeer, request_id, message, NoSlot, None, FALSE,
                           "error")
         /\ UNCHANGED <<next_request_id, request_frames, response_frames,
                        pending_requests, slots, delivered, message_vars>>
    ELSE LET sender == pending_requests[request_id]
             result == IF message.type = "Request"
                       THEN Ok(ResponseDefault)
                       ELSE Ok(message.body)
             ok     == SenderSendOk(slots[sender])
         IN  /\ pending_requests' = HashMapRemove(pending_requests, request_id)
             /\ slots' = [slots EXCEPT ![sender] = SenderSend(@, result)]
             /\ delivered' = [delivered EXCEPT ![sender] = IF ok THEN @ + 1 ELSE @]
             /\ event' = Event("Response", NoPeer, request_id, message, sender, result, ok,
                               IF ok THEN "none" ELSE "warn")
             /\ UNCHANGED <<next_request_id, request_frames, response_frames,
                            message_vars>>

\* The Response arm returning early, entry left in place, when the caller
\* has already dropped its Receiver.
inject_event_Response_canceled(request_id, message) ==
    IF \/ request_id \notin DOMAIN pending_requests
       \/ slots[pending_requests[request_id]].rx = "dropped"
    THEN /\ event' = Event("Response", NoPeer, request_id, message, NoSlot, None, FALSE,
                           "error")
         /\ UNCHANGED <<next_request_id, request_frames, response_frames,
                        pending_requests, slots, delivered, message_vars>>
    ELSE LET sender == pending_requests[request_id]
             result == IF message.type = "Request"
                       THEN Err(UnexpectedRequest)
                       ELSE Ok(message.body)
             ok     == SenderSendOk(slots[sender])
         IN  /\ pending_requests' = HashMapRemove(pending_requests, request_id)
             /\ slots' = [slots EXCEPT ![sender] = SenderSend(@, result)]
             /\ delivered' = [delivered EXCEPT ![sender] = IF ok THEN @ + 1 ELSE @]
             /\ event' = Event("Response", NoPeer, request_id, message, sender, result, ok,
                               IF ok THEN "none" ELSE "warn")
             /\ UNCHANGED <<next_request_id, request_frames, response_frames,
                            message_vars>>

\* The Response arm emptying the pending table.
inject_event_Response_clear(request_id, message) ==
    IF request_id \notin DOMAIN pending_requests
    THEN /\ event' = Event("Response", NoPeer, request_id, message, NoSlot, None, FALSE,
                           "error")
         /\ UNCHANGED <<next_request_id, request_frames, response_frames,
                        pending_requests, slots, delivered, message_vars>>
    ELSE LET sender == pending_requests[request_id]
             result == IF message.type = "Request"
                       THEN Err(UnexpectedRequest)
                       ELSE Ok(message.body)
             ok     == SenderSendOk(slots[sender])
         IN  /\ pending_requests' = [id \in {} |-> NoSlot]
             /\ slots' = [slots EXCEPT ![sender] = SenderSend(@, result)]
             /\ delivered' = [delivered EXCEPT ![sender] = IF ok THEN @ + 1 ELSE @]
             /\ event' = Event("Response", NoPeer, request_id, message, sender, result, ok,
                               IF ok THEN "none" ELSE "warn")
             /\ UNCHANGED <<next_request_id, request_frames, response_frames,
                            message_vars>>

\* inject_event, arm RequestResponseMessage::Response.
inject_event_Response(request_id, message) ==
    IF request_id \notin DOMAIN pending_requests
    THEN /\ event' = Event("Response", NoPeer, request_id, message, NoSlot, None, FALSE,
                           "error")
         /\ UNCHANGED <<next_request_id, request_frames, response_frames,
                        pending_requests, slots, delivered, message_vars>>
    ELSE LET sender == pending_requests[request_id]
             result == IF message.type = "Request"
                       THEN Err(UnexpectedRequest)
                       ELSE Ok(message.body)
             ok     == SenderSendOk(slots[sender])
         IN  /\ pending_requests' = HashMapRemove(pending_requests, request_id)
             /\ slots' = [slots EXCEPT ![sender] = SenderSend(@, result)]
             /\ delivered' = [delivered EXCEPT ![sender] = IF ok THEN @ + 1 ELSE @]
             /\ event' = Event("Response", NoPeer, request_id, message, sender, result, ok,
                               IF ok THEN "none" ELSE "warn")
             /\ UNCHANGED <<next_request_id, request_frames, response_frames,
                            message_vars>>

\* The OutboundFailure arm reporting Dropped instead of the failure it got.
inject_event_OutboundFailure_dropped(request_id, error) ==
    LET payload == [type |-> "OutboundFailure", body |-> error]
    IN  IF request_id \notin DOMAIN pending_requests
        THEN /\ event' = Event("OutboundFailure", NoPeer, request_id, payload, NoSlot, None,
                               FALSE, "error")
             /\ UNCHANGED <<next_request_id, request_frames, response_frames,
                            pending_requests, slots, delivered, message_vars>>
        ELSE LET key    == request_id
                 sender == pending_requests[key]
                 result == Err(Dropped)
                 ok     == SenderSendOk(slots[sender])
             IN  /\ pending_requests' = HashMapRemove(pending_requests, key)
                 /\ slots' = [slots EXCEPT ![sender] = SenderSend(@, result)]
                 /\ delivered' = [delivered EXCEPT
                                    ![sender] = IF ok THEN @ + 1 ELSE @]
                 /\ event' = Event("OutboundFailure", NoPeer, request_id, payload, sender,
                                   result, ok, IF ok THEN "none" ELSE "warn")
                 /\ UNCHANGED <<next_request_id, request_frames, response_frames,
                                message_vars>>

\* The OutboundFailure arm failing whichever request is pending when the id
\* it was given is not in the table.
inject_event_OutboundFailure_any(request_id, error) ==
    LET payload == [type |-> "OutboundFailure", body |-> error]
    IN  IF DOMAIN pending_requests = {}
        THEN /\ event' = Event("OutboundFailure", NoPeer, request_id, payload, NoSlot, None,
                               FALSE, "error")
             /\ UNCHANGED <<next_request_id, request_frames, response_frames,
                            pending_requests, slots, delivered, message_vars>>
        ELSE LET key    == IF request_id \in DOMAIN pending_requests
                           THEN request_id
                           ELSE CHOOSE k \in DOMAIN pending_requests : TRUE
                 sender == pending_requests[key]
                 result == Err(OutboundFailure(error))
                 ok     == SenderSendOk(slots[sender])
             IN  /\ pending_requests' = HashMapRemove(pending_requests, key)
                 /\ slots' = [slots EXCEPT ![sender] = SenderSend(@, result)]
                 /\ delivered' = [delivered EXCEPT
                                    ![sender] = IF ok THEN @ + 1 ELSE @]
                 /\ event' = Event("OutboundFailure", NoPeer, request_id, payload, sender,
                                   result, ok, IF ok THEN "none" ELSE "warn")
                 /\ UNCHANGED <<next_request_id, request_frames, response_frames,
                                message_vars>>

\* The OutboundFailure arm leaving the entry in the table.
inject_event_OutboundFailure_leak(request_id, error) ==
    LET payload == [type |-> "OutboundFailure", body |-> error]
    IN  IF request_id \notin DOMAIN pending_requests
        THEN /\ event' = Event("OutboundFailure", NoPeer, request_id, payload, NoSlot, None,
                               FALSE, "error")
             /\ UNCHANGED <<next_request_id, request_frames, response_frames,
                            pending_requests, slots, delivered, message_vars>>
        ELSE LET key    == request_id
                 sender == pending_requests[key]
                 result == Err(OutboundFailure(error))
                 ok     == SenderSendOk(slots[sender])
             IN  /\ pending_requests' = pending_requests
                 /\ slots' = [slots EXCEPT ![sender] = SenderSend(@, result)]
                 /\ delivered' = [delivered EXCEPT
                                    ![sender] = IF ok THEN @ + 1 ELSE @]
                 /\ event' = Event("OutboundFailure", NoPeer, request_id, payload, sender,
                                   result, ok, IF ok THEN "none" ELSE "warn")
                 /\ UNCHANGED <<next_request_id, request_frames, response_frames,
                                message_vars>>

\* The OutboundFailure arm taking the sender out of the table and holding on
\* to it without an answer.
inject_event_OutboundFailure_unanswered(request_id, error) ==
    LET payload == [type |-> "OutboundFailure", body |-> error]
    IN  IF request_id \notin DOMAIN pending_requests
        THEN /\ event' = Event("OutboundFailure", NoPeer, request_id, payload, NoSlot, None,
                               FALSE, "error")
             /\ UNCHANGED <<next_request_id, request_frames, response_frames,
                            pending_requests, slots, delivered, message_vars>>
        ELSE /\ pending_requests' = HashMapRemove(pending_requests, request_id)
             /\ event' = Event("OutboundFailure", NoPeer, request_id, payload,
                               pending_requests[request_id], None, FALSE, "none")
             /\ UNCHANGED <<next_request_id, request_frames, response_frames, slots,
                            delivered, message_vars>>

\* inject_event, arm RequestResponseEvent::OutboundFailure.
inject_event_OutboundFailure(request_id, error) ==
    LET payload == [type |-> "OutboundFailure", body |-> error]
    IN  IF request_id \notin DOMAIN pending_requests
        THEN /\ event' = Event("OutboundFailure", NoPeer, request_id, payload, NoSlot, None,
                               FALSE, "error")
             /\ UNCHANGED <<next_request_id, request_frames, response_frames,
                            pending_requests, slots, delivered, message_vars>>
        ELSE LET sender == pending_requests[request_id]
                 result == Err(OutboundFailure(error))
                 ok     == SenderSendOk(slots[sender])
             IN  /\ pending_requests' = HashMapRemove(pending_requests, request_id)
                 /\ slots' = [slots EXCEPT ![sender] = SenderSend(@, result)]
                 /\ delivered' = [delivered EXCEPT
                                    ![sender] = IF ok THEN @ + 1 ELSE @]
                 /\ event' = Event("OutboundFailure", NoPeer, request_id, payload, sender,
                                   result, ok, IF ok THEN "none" ELSE "warn")
                 /\ UNCHANGED <<next_request_id, request_frames, response_frames,
                                message_vars>>

\* inject_event, arm RequestResponseEvent::InboundFailure.
inject_event_InboundFailure(request_id, error) ==
    /\ event' = Event("InboundFailure", NoPeer, request_id,
                      [type |-> "InboundFailure", body |-> error], NoSlot, None,
                      FALSE, "error")
    /\ UNCHANGED <<next_request_id, request_frames, response_frames, pending_requests,
                   slots, delivered, message_vars>>

\* inject_event, arm RequestResponseEvent::ResponseSent.
inject_event_ResponseSent(request_id) ==
    /\ event' = Event("ResponseSent", NoPeer, request_id, NoPayload, NoSlot, None, FALSE,
                      "none")
    /\ UNCHANGED <<next_request_id, request_frames, response_frames, pending_requests,
                   slots, delivered, message_vars>>

\* The caller gives up waiting before a result has reached its reply slot:
\* the Receiver is dropped.
DropReceiver(slot) ==
    /\ slots[slot].rx = "waiting"
    /\ slots[slot].value = None
    /\ slots' = [slots EXCEPT ![slot].rx = "dropped"]
    /\ event' = Event("DropReceiver", NoPeer, 0, NoPayload, slot, None, FALSE, "none")
    /\ UNCHANGED <<next_request_id, request_frames, response_frames, pending_requests,
                   delivered, message_vars>>

\* The history kept beside the program's state: which id each send obtained,
\* and which sends have seen no Response or OutboundFailure event for their
\* id since.
HistorySend ==
    /\ returned' = Append(returned, send_request_id)
    /\ awaiting' = awaiting \cup {Len(slots) + 1}

HistoryTerminal(request_id) ==
    /\ returned' = returned
    /\ awaiting' = {s \in awaiting : returned[s] # request_id}

HistoryUnchanged == UNCHANGED <<returned, awaiting>>

\* A caller creates a oneshot channel and calls send with its Sender.
Send ==
    /\ Len(slots) < MaxSends
    /\ \E peer_id \in Peers : \E request \in SendRequests :
          send(peer_id, request, Len(slots) + 1, Append(slots, NewChannel))
    /\ delivered' = Append(delivered, 0)
    /\ HistorySend
    /\ UNCHANGED node_vars

InjectRequest ==
    /\ \E request_id \in RequestIds : \E request \in EventMessages :
          inject_event_Request(request_id, request) /\ HistoryUnchanged
    /\ UNCHANGED node_vars

InjectResponse ==
    /\ \E request_id \in RequestIds : \E message \in EventMessages :
          inject_event_Response(request_id, message) /\ HistoryTerminal(request_id)
    /\ UNCHANGED node_vars

InjectOutboundFailure ==
    /\ \E request_id \in RequestIds : \E error \in OutboundFailures :
          inject_event_OutboundFailure(request_id, error)
          /\ HistoryTerminal(request_id)
    /\ UNCHANGED node_vars

InjectInboundFailure ==
    /\ \E request_id \in RequestIds : \E error \in InboundFailures :
          inject_event_InboundFailure(request_id, error) /\ HistoryUnchanged
    /\ UNCHANGED node_vars

InjectResponseSent ==
    /\ \E request_id \in RequestIds :
          inject_event_ResponseSent(request_id) /\ HistoryUnchanged
    /\ UNCHANGED node_vars

CallerDropsReceiver ==
    /\ \E slot \in 1 .. Len(slots) : DropReceiver(slot) /\ HistoryUnchanged

    /\ UNCHANGED node_vars

Next ==
    \/ Send
    \/ InjectRequest
    \/ InjectResponse
    \/ InjectOutboundFailure
    \/ InjectInboundFailure
    \/ InjectResponseSent
    \/ CallerDropsReceiver

Spec == Init /\ [][Next]_vars

(***************************************************************************)
(* The message operations, applied to every Response of the input set      *)
(***************************************************************************)

\* The requests built from an order filter: the default one and one with
\* another filter.
FilterRequests == {RequestDefault, RequestFromOrderFilter(mainnet_v3)}

MessagesInit ==
    /\ OrderSyncInit
    /\ response \in Responses
    /\ derived = Unset
    /\ previous_request \in FilterRequests
    /\ encoded = Unset
    /\ decoded = Unset
    /\ NodeNew
    /\ NoStream
    /\ fetch = FetchTask("none", NoPeer, <<>>, NoSlot, None, FALSE)

\* response.next_request(), under either build profile.
NextRequest ==
    /\ derived = Unset
    /\ \E overflow_checks \in BOOLEAN :
          derived' = next_request(response, overflow_checks)
    /\ UNCHANGED <<order_sync_vars, node_vars, response, previous_request, encoded,
                   decoded>>

\* JsonCodec::write_request of Message::Request(previous_request)
WriteRequest ==
    /\ encoded = Unset
    /\ encoded' = ToJson(MessageRequest(previous_request))
    /\ UNCHANGED <<order_sync_vars, node_vars, response, derived, previous_request,
                   decoded>>

\* JsonCodec::write_response of Message::Response(response)
WriteResponse ==
    /\ encoded = Unset
    /\ encoded' = ToJson(MessageResponse(response))
    /\ UNCHANGED <<order_sync_vars, node_vars, response, derived, previous_request,
                   decoded>>

\* read_json of what was written
ReadJson ==
    /\ encoded # Unset
    /\ decoded = Unset
    /\ decoded' = FromJson(encoded)
    /\ UNCHANGED <<order_sync_vars, node_vars, response, derived, previous_request,
                   encoded>>

MessagesNext ==
    \/ NextRequest
    \/ WriteRequest
    \/ WriteResponse
    \/ ReadJson

SpecMessages == MessagesInit /\ [][MessagesNext]_vars

(***************************************************************************)
(* The codec applied to every Request of the input set                     *)
(***************************************************************************)

OrderFilters == {OrderFilterDefault, mainnet_v3}

RequestMetadatas ==
    {RequestMetadataV0(s, p, f) : s \in SnapshotIds, p \in Pages, f \in OrderFilters}
    \cup {RequestMetadataV1(h, f) : h \in OrderHashes, f \in OrderFilters}

\* struct Request: any list of metadata entries, each named by its
\* subprotocol.
Requests ==
    {[subprotocols |-> MapSeq(sub_protocol_name, metadata), metadata |-> metadata] :
        metadata \in SeqsUpTo(RequestMetadatas, MaxMetadata)}

RequestsInit ==
    /\ OrderSyncInit
    /\ response = ResponseDefault
    /\ derived = Unset
    /\ previous_request \in Requests
    /\ encoded = Unset
    /\ decoded = Unset
    /\ NodeNew
    /\ NoStream
    /\ fetch = FetchTask("none", NoPeer, <<>>, NoSlot, None, FALSE)

RequestsNext ==
    \/ WriteRequest
    \/ ReadJson

SpecRequests == RequestsInit /\ [][RequestsNext]_vars

(***************************************************************************)
(* discovery.rs: the peer table                                            *)
(***************************************************************************)

\* The protocol the drain task looks for in a peer's identify payload.
OrderSyncProtocol == "/0x-mesh/order-sync/version/0"

\* libp2p::identify::IdentifyInfo, by the protocols it lists.
IdentifyInfos ==
    {[protocols |-> {"/ipfs/id/1.0.0"}],
     [protocols |-> {"/ipfs/id/1.0.0", OrderSyncProtocol}]}

\* Round trip times of a ping, in milliseconds.
Rtts == {10}

\* PeerInfo::new
PeerInfoNew == [identify |-> None, ping |-> None]

\* HashMap::entry(peer_id).or_insert(PeerInfo::new(peer_id))
EntryOrInsert(map, peer_id) ==
    IF peer_id \in DOMAIN map THEN map[peer_id] ELSE PeerInfoNew

\* inject_event, IdentifyEvent::Received
inject_event_IdentifyReceived(peer_id, info) ==
    nodes_info' = HashMapInsert(nodes_info, peer_id,
                      [EntryOrInsert(nodes_info, peer_id) EXCEPT !.identify = Some(info)])

\* inject_event, PingEvent with Ok(PingSuccess::Ping { rtt })
inject_event_PingSuccess(peer, rtt) ==
    nodes_info' = HashMapInsert(nodes_info, peer,
                      [EntryOrInsert(nodes_info, peer) EXCEPT !.ping = Some(rtt)])

\* Discovery::known_peers: the handle through which the drain task reads the
\* table that the identify and ping handlers write.
known_peers == nodes_info

(***************************************************************************)
(* The streaming decoder: read_json (utils.rs) behind read_request and     *)
(* read_response of the JsonCodec, reading what write_request and          *)
(* write_response wrote                                                    *)
(***************************************************************************)

\* const MAX_SIZE: usize
MAX_SIZE == 1024

\* A Response whose encoding is longer than MAX_SIZE bytes.
LongResponse ==
    [orders |-> <<Order1, Order2, Order1>>, complete |-> TRUE,
     metadata |-> ResponseMetadataV0("abc", MaxPage)]

StreamMessages == EventMessages \cup {MessageResponse(LongResponse)}

\* io::ErrorKind::UnexpectedEof
UnexpectedEof == [tag |-> "Err", category |-> "UnexpectedEof"]

outside_codec == <<order_sync_vars, message_vars, nodes_info, fetch, mailbox, parked,
                   rpc_log, sink, calls, run_loop, read_lock, my_behaviour,
                   order_sync_receiver,
                   behaviour_vars>>

\* Streams written by a peer that is not this codec: an object that is no
\* Message, a Response without its fields, a stray comma in the middle of an
\* object, and a byte behind a complete Response.
ForeignStreams ==
    {"{\"type\":\"Bogus\"}",
     "{\"type\":\"Response\"}",
     "{\"type\":\"Response\",,\"orders\":[]}",
     to_vec(MessageResponse(ResponseDefault)) \o "x"}

\* read_json reading on after every failed parse.
read_json_parsed_retry(result) ==
    IF result.tag = "Err" THEN None ELSE Some(result)

\* read_json returning whatever the parse of the buffer gave.
read_json_parsed_return(result) == Some(result)

\* read_json after a read: on an EOF error of the parse the loop continues
\* with the next read; every other outcome is returned.
read_json_parsed(result) ==
    IF result.tag = "Err" /\ result.category = "Eof"
    THEN None
    ELSE Some(result)

\* write_request / write_response: the encoding of the message goes to the
\* stream in one write_all.  The stream delivers all of it, or the first n
\* bytes when the connection closes early.
WriteMessage(message, n) ==
    /\ written = None
    /\ written' = Some(message)
    /\ io' = SubSeq(to_vec(message), 1, n)
    /\ UNCHANGED <<buffer, read, outside_codec>>

\* A peer that is not this codec writes its bytes to the stream and closes
\* it.
WriteForeign(bytes) ==
    /\ written = None
    /\ written' = Some(NoPayload)
    /\ io' = bytes
    /\ UNCHANGED <<buffer, read, outside_codec>>

\* One turn of the loop of read_json: io.read delivers the next n bytes,
\* 1 <= n <= the block's length, they are appended to the buffer, and the
\* whole buffer is parsed.
ReadBlock(n) ==
    /\ written # None
    /\ read = None
    /\ n \in 1 .. Min(Len(io), BlockSize)
    /\ buffer' = buffer \o SubSeq(io, 1, n)
    /\ io' = SubSeq(io, n + 1, Len(io))
    /\ read' = read_json_parsed(from_slice(buffer'))
    /\ UNCHANGED <<written, outside_codec>>

\* io.read returns Ok(0): the stream ended before the buffer held a value.
ReadEof ==
    /\ written # None
    /\ read = None
    /\ io = ""
    /\ read' = Some(UnexpectedEof)
    /\ UNCHANGED <<io, buffer, written, outside_codec>>

CodecNext ==
    \/ \E message \in StreamMessages :
           \E n \in {Len(to_vec(message)) \div 2, Len(to_vec(message))} :
              WriteMessage(message, n)
    \/ \E bytes \in ForeignStreams : WriteForeign(bytes)
    \/ \E n \in 1 .. BlockSize : ReadBlock(n)
    \/ ReadEof

SpecCodec == Init /\ [][CodecNext]_vars

(***************************************************************************)
(* The single-struct behaviour stack: MyBehaviour (behaviour.rs)           *)
(***************************************************************************)

\* Number of identify payloads received.
MaxReceived == 4

\* OrderFilter::mainnet_v2
mainnet_v2 ==
    [chain_id |-> 1, custom_order_schema |-> "{}",
     exchange_address |-> "0x080bf510fcbf18b91105470639e9561022937712"]

PublicKeys == {"key1", "key2"}

\* PublicKey::into_peer_id
into_peer_id(public_key) == IF public_key = "key1" THEN "peer1" ELSE "peer2"

\* IdentifyInfo, by its public key and the protocols it lists.
MyIdentifyInfos ==
    {[public_key |-> k, protocols |-> ps] :
        k \in PublicKeys, ps \in {{"/ipfs/id/1.0.0"}, {"/ipfs/id/1.0.0", OrderSyncProtocol}}}

outside_my_behaviour ==
    <<order_sync_vars, message_vars, nodes_info, fetch, mailbox, parked, rpc_log, sink,
      calls, run_loop, read_lock, order_sync_receiver, behaviour_vars, codec_vars>>

\* MyBehaviour::get_orders: one request, built from the mainnet v2 filter,
\* goes to the peer.
get_orders(behaviour, peer) ==
    [behaviour EXCEPT
        !.requests = Append(@, [peer |-> peer,
                                request |-> RequestFromOrderFilter(mainnet_v2)])]

\* upsert_peer_info requesting from every peer that lists the protocol.
upsert_peer_info_every(behaviour, peer_info) ==
    IF OrderSyncProtocol \in peer_info.protocols
    THEN get_orders([behaviour EXCEPT !.requesting = TRUE],
                    into_peer_id(peer_info.public_key))
    ELSE behaviour

\* MyBehaviour::upsert_peer_info: the first payload that lists the OrderSync
\* protocol sets requesting and has get_orders called for its peer; nothing
\* is stored.
upsert_peer_info(behaviour, peer_info) ==
    IF OrderSyncProtocol \in peer_info.protocols /\ ~behaviour.requesting
    THEN get_orders([behaviour EXCEPT !.requesting = TRUE],
                    into_peer_id(peer_info.public_key))
    ELSE behaviour

\* inject_event, IdentifyEvent::Received { info, .. }
MyIdentifyReceived ==
    /\ Len(my_behaviour.received) < MaxReceived
    /\ \E info \in MyIdentifyInfos :
          my_behaviour' = [upsert_peer_info(my_behaviour, info) EXCEPT
                              !.received = Append(@, info)]
    /\ UNCHANGED outside_my_behaviour

\* inject_event for every other event of the stack: IdentifyEvent::Sent and
\* Error, mDNS, ping, gossipsub and OrderSync events are only logged.  The
\* step is recorded in the history as a payload without protocols.
MyLoggedEvent ==
    /\ Len(my_behaviour.received) < MaxReceived
    /\ my_behaviour' = [my_behaviour EXCEPT
                           !.received = Append(@, [public_key |-> "none",
                                                   protocols |-> {}])]
    /\ UNCHANGED outside_my_behaviour

MyBehaviourNext ==
    \/ MyIdentifyReceived
    \/ MyLoggedEvent

SpecMyBehaviour == Init /\ [][MyBehaviourNext]_vars

(***************************************************************************)
(* The behaviour stack: Behaviour::start and the swarm events handled by   *)
(* Discovery (discovery.rs) and PubSub (pubsub.rs)                          *)
(***************************************************************************)

\* The number of bootstrap queries a run starts.
MaxQueries == 2

\* The gossip topic of the orders.
TOPIC == "/0x-orders/version/3/chain/1/schema/e30="

discovery_vars == <<nodes_info, bootstrap_query_id, kademlia>>

\* Round trip times of the pings delivered to Discovery, in milliseconds.
PingRtts == {10, 20}

\* IdentifyEvent: Received, Sent and Error.
IdentifyEvents ==
    {BehaviourEvent("IdentifyReceived", peer_id, [info |-> info]) :
        peer_id \in Peers, info \in IdentifyInfos}
    \cup {BehaviourEvent(kind, peer_id, NoPayload) :
             kind \in {"IdentifySent", "IdentifyError"}, peer_id \in Peers}

\* PingEvent: a result of Ok(Ping { rtt }), Ok(Pong) or Err.
PingEvents ==
    {BehaviourEvent("Ping", peer, [rtt |-> rtt]) : peer \in Peers, rtt \in PingRtts}
    \cup {BehaviourEvent(kind, peer, NoPayload) :
             kind \in {"Pong", "PingFailure"}, peer \in Peers}

\* The (peer, address) pairs a LAN announcement carries.
LanAddresses ==
    {<<<<"peer1", "/ip4/192.168.0.11/tcp/4001">>>>,
     <<<<"peer1", "/ip4/192.168.0.11/tcp/4001">>,
       <<"peer2", "/ip4/192.168.0.12/tcp/4001">>>>}

\* MdnsEvent: Discovered and Expired, each with a list of pairs.
MdnsEvents ==
    {BehaviourEvent(kind, NoPeer, [list |-> list]) :
        kind \in {"MdnsDiscovered", "MdnsExpired"}, list \in LanAddresses}

\* The results of a bootstrap query: Ok with the number of buckets still to
\* refresh, or an error.
BootstrapResults ==
    {[tag |-> "Ok", num_remaining |-> 0], [tag |-> "Ok", num_remaining |-> 1],
     [tag |-> "Err"]}

\* KademliaEvent: the result of a query the behaviour has issued, by the kind
\* of the query, and the four notices about the routing table.
KademliaEvents ==
    {BehaviourEvent("QueryResult", NoPeer, [id |-> id, query |-> "Bootstrap",
                                            result |-> result]) :
        id \in 0 .. kademlia.next_query_id - 1, result \in BootstrapResults}
    \cup {BehaviourEvent("QueryResult", NoPeer, [id |-> id, query |-> query,
                                                 result |-> [tag |-> tag]]) :
             id \in 0 .. kademlia.next_query_id - 1,
             query \in {"GetClosestPeers", "GetRecord"}, tag \in {"Ok", "Err"}}
    \cup {BehaviourEvent(kind, peer, NoPayload) :
             kind \in {"RoutingUpdated", "UnroutablePeer", "RoutablePeer",
                       "PendingRoutablePeer"},
             peer \in Peers}

\* GossipsubEvent: a message, or a remote peer subscribing or unsubscribing.
GossipsubEvents ==
    {BehaviourEvent(kind, peer, [topic |-> TOPIC]) :
        kind \in {"Message", "Subscribed", "Unsubscribed"}, peer \in Peers}

\* Kademlia::bootstrap refuses when no peer is known.
BootstrapOk == kademlia.addresses # {}

\* Discovery::start: the bootstrap query is issued and its id remembered; an
\* error of bootstrap is returned before anything is stored.
Discovery_start ==
    IF BootstrapOk
    THEN /\ kademlia' = [kademlia EXCEPT !.next_query_id = @ + 1]
         /\ bootstrap_query_id' = Some(kademlia.next_query_id)
         /\ UNCHANGED nodes_info
    ELSE UNCHANGED discovery_vars

\* PubSub::start: the node subscribes to the topic of the orders.
PubSub_start ==
    gossipsub' = [gossipsub EXCEPT !.subscriptions = @ \cup {TOPIC}]

\* start returning once Discovery has started.
Behaviour_start_discovery_only ==
    /\ Discovery_start
    /\ UNCHANGED gossipsub

\* Behaviour::start: self.discovery.start()?; self.pubsub.start(); Ok(())
Behaviour_start ==
    /\ Discovery_start
    /\ IF BootstrapOk THEN PubSub_start ELSE UNCHANGED gossipsub

\* inject_event of MdnsEvent: both events are logged pair by pair.
inject_event_MdnsEvent(mdns_event) == UNCHANGED discovery_vars

\* A bootstrap result clearing the remembered id whatever its own id.
inject_event_KademliaEvent_any_id(kademlia_event) ==
    LET payload == kademlia_event.payload
    IN  IF kademlia_event.kind = "QueryResult" /\ payload.query = "Bootstrap"
        THEN LET done == IF payload.result.tag = "Ok"
                         THEN payload.result.num_remaining = 0
                         ELSE TRUE
             IN  /\ bootstrap_query_id' = IF done THEN None ELSE bootstrap_query_id
                 /\ UNCHANGED <<nodes_info, kademlia>>
        ELSE UNCHANGED discovery_vars

\* inject_event of KademliaEvent: a bootstrap result that is final (an error,
\* or no bucket remaining) clears the remembered id when it carries that id;
\* every other event is logged.
inject_event_KademliaEvent(kademlia_event) ==
    LET payload == kademlia_event.payload
    IN  IF kademlia_event.kind = "QueryResult" /\ payload.query = "Bootstrap"
        THEN LET done == IF payload.result.tag = "Ok"
                         THEN payload.result.num_remaining = 0
                         ELSE TRUE
             IN  /\ bootstrap_query_id' =
                        IF Some(payload.id) = bootstrap_query_id /\ done
                        THEN None
                        ELSE bootstrap_query_id
                 /\ UNCHANGED <<nodes_info, kademlia>>
        ELSE UNCHANGED discovery_vars

\* Received storing a fresh record with the payload.
inject_event_IdentifyEvent_fresh(identify_event) ==
    IF identify_event.kind = "IdentifyReceived"
    THEN /\ nodes_info' = HashMapInsert(nodes_info, identify_event.peer,
                              [PeerInfoNew EXCEPT
                                  !.identify = Some(identify_event.payload.info)])
         /\ UNCHANGED <<bootstrap_query_id, kademlia>>
    ELSE UNCHANGED discovery_vars

\* inject_event of IdentifyEvent: Received upserts the payload; Sent and
\* Error are logged.
inject_event_IdentifyEvent(identify_event) ==
    IF identify_event.kind = "IdentifyReceived"
    THEN /\ inject_event_IdentifyReceived(identify_event.peer,
                                          identify_event.payload.info)
         /\ UNCHANGED <<bootstrap_query_id, kademlia>>
    ELSE UNCHANGED discovery_vars

\* A failed ping evicting the peer.
inject_event_PingEvent_evict(ping_event) ==
    IF ping_event.kind = "Ping"
    THEN /\ inject_event_PingSuccess(ping_event.peer, ping_event.payload.rtt)
         /\ UNCHANGED <<bootstrap_query_id, kademlia>>
    ELSE IF ping_event.kind = "PingFailure"
    THEN /\ nodes_info' = HashMapRemove(nodes_info, ping_event.peer)
         /\ UNCHANGED <<bootstrap_query_id, kademlia>>
    ELSE UNCHANGED discovery_vars

\* inject_event of PingEvent: a ping's round trip time is upserted; a pong
\* and a failure are logged.
inject_event_PingEvent(ping_event) ==
    IF ping_event.kind = "Ping"
    THEN /\ inject_event_PingSuccess(ping_event.peer, ping_event.payload.rtt)
         /\ UNCHANGED <<bootstrap_query_id, kademlia>>
    ELSE UNCHANGED discovery_vars

\* inject_event of GossipsubEvent: nothing is done with the event.
inject_event_GossipsubEvent(gossipsub_event) == UNCHANGED gossipsub

\* The state the behaviour stack does not touch.
outside_behaviour ==
    <<order_sync_vars, message_vars, fetch, mailbox, parked, rpc_log, sink, calls,
      run_loop, read_lock, my_behaviour, order_sync_receiver, codec_vars>>

\* Node::start: the behaviour stack is started.
BehaviourStart ==
    /\ kademlia.next_query_id < MaxQueries
    /\ Behaviour_start
    /\ behaviour_event' = BehaviourEvent("start", NoPeer,
                                         [ok |-> BootstrapOk])
    /\ UNCHANGED outside_behaviour

SwarmIdentifyEvent ==
    /\ \E identify_event \in IdentifyEvents :
          /\ inject_event_IdentifyEvent(identify_event)
          /\ behaviour_event' = identify_event
    /\ UNCHANGED <<gossipsub, outside_behaviour>>

SwarmPingEvent ==
    /\ \E ping_event \in PingEvents :
          /\ inject_event_PingEvent(ping_event)
          /\ behaviour_event' = ping_event
    /\ UNCHANGED <<gossipsub, outside_behaviour>>

SwarmMdnsEvent ==
    /\ \E mdns_event \in MdnsEvents :
          /\ inject_event_MdnsEvent(mdns_event)
          /\ behaviour_event' = mdns_event
    /\ UNCHANGED <<gossipsub, outside_behaviour>>

SwarmKademliaEvent ==
    /\ \E kademlia_event \in KademliaEvents :
          /\ inject_event_KademliaEvent(kademlia_event)
          /\ behaviour_event' = kademlia_event
    /\ UNCHANGED <<gossipsub, outside_behaviour>>

SwarmGossipsubEvent ==
    /\ \E gossipsub_event \in GossipsubEvents :
          /\ inject_event_GossipsubEvent(gossipsub_event)
          /\ behaviour_event' = gossipsub_event
    /\ UNCHANGED <<discovery_vars, outside_behaviour>>

BehaviourNext ==
    \/ BehaviourStart
    \/ SwarmIdentifyEvent
    \/ SwarmPingEvent
    \/ SwarmMdnsEvent
    \/ SwarmKademliaEvent
    \/ SwarmGossipsubEvent

SpecBehaviour == Init /\ [][BehaviourNext]_vars

(***************************************************************************)
(* node/mod.rs: the mailbox, OrderSyncRpc::call, Node::run and the drain   *)
(* task of run()                                                           *)
(***************************************************************************)

\* mpsc::channel(request_buffer_size): 16 in Node::new, scaled down here.
request_buffer_size == 1

\* Sink::poll_ready of an mpsc::Sender: pending while the sender is parked.
MailboxReady(handle) == \A i \in 1 .. Len(parked) : parked[i] # handle

\* start_send of a Sender that never parks itself.
MailboxPush_unparked(handle, item) ==
    /\ mailbox' = Append(mailbox, item)
    /\ parked' = parked

\* Sink::start_send of an mpsc::Sender that is not parked: the message is
\* queued, and the sender parks itself when the queue has grown beyond the
\* buffer.
MailboxPush(handle, item) ==
    /\ mailbox' = Append(mailbox, item)
    /\ parked' = IF Len(mailbox) + 1 > request_buffer_size
                 THEN Append(parked, handle)
                 ELSE parked

\* The request ids of the reply slots whose request has not reached send.
NoRequestId == 0 - 1

\* oneshot::Receiver polled with no result yet answering as if an incomplete
\* page had arrived.
ReceiverPoll_eager(channel) ==
    IF channel.value # None
    THEN [tag |-> "Ready", value |-> channel.value.value]
    ELSE IF channel.tx # "alive"
    THEN [tag |-> "Canceled"]
    ELSE [tag |-> "Ready",
          value |-> Ok([orders |-> <<Order1>>, complete |-> FALSE,
                        metadata |-> ResponseMetadataV1("0x01")])]

\* Polling a oneshot::Receiver: the value once the Sender has sent it,
\* Canceled once the Sender is gone without a value, pending otherwise.
ReceiverPoll(channel) ==
    IF channel.value # None
    THEN [tag |-> "Ready", value |-> channel.value.value]
    ELSE IF channel.tx # "alive"
    THEN [tag |-> "Canceled"]
    ELSE [tag |-> "Pending"]

\* receiver.await? in OrderSyncRpc::call: Canceled becomes Err(Dropped).
call_result(poll) == IF poll.tag = "Canceled" THEN Err(Dropped) ELSE poll.value

\* The test of the selection loop passing every peer that has an identify
\* payload.
supports_order_sync_identified(peer_info) == peer_info.identify # None

\* The test of the selection loop: the peer has an identify payload and the
\* payload lists the OrderSync protocol.
supports_order_sync(peer_info) ==
    /\ peer_info.identify # None
    /\ OrderSyncProtocol \in peer_info.identify.value.protocols

\* order.json written after every page.
order_json_each_page(task_pc, orders) ==
    IF task_pc \in {"done", "await"} THEN Some(orders) ELSE sink

\* The fetch arm of the main loop: order.json is written when the drain
\* task has returned Ok(orders), and at no other time.
order_json(task_pc, orders) ==
    IF task_pc = "done" THEN Some(orders) ELSE sink

\* The process runs until a panic unwinds run().
Running ==
    /\ fetch.pc # "panicked"
    /\ run_loop = "select"
    /\ order_sync_receiver = "open"

\* The selection loop keeping its guard over the sleep.
read_lock_at_await_guard_kept(found) == ~found

\* The guard of known_peers.read() when the selection loop reaches its next
\* await: a peer found, break leaves the body of the loop and the guard, a
\* local of the body, is gone before the first call; none found, drop(lock)
\* releases it before the sleep.
read_lock_at_await(found) == IF found THEN FALSE ELSE FALSE

\* RwLock::write on the known-peer table, as the identify and ping handlers
\* take it: granted while no reader holds the lock.
write_lock_free == ~read_lock

\* order_sync_rpc.call(peer_id, request) of the drain task, up to its
\* suspension at receiver.await: a fresh oneshot channel whose Sender is
\* queued in the mailbox with the peer and the request.
FetchCall(peer_id, request, orders) ==
    LET slot == Len(slots) + 1
    IN  /\ Len(slots) < MaxSends
        /\ MailboxReady(FetchHandle)
        /\ slots' = Append(slots, NewChannel)
        /\ delivered' = Append(delivered, 0)
        /\ returned' = Append(returned, NoRequestId)
        /\ MailboxPush(FetchHandle,
                       [peer_id |-> peer_id, request |-> request, sender |-> slot])
        /\ rpc_log' = Append(rpc_log,
                             [peer_id |-> peer_id, request |-> request, slot |-> slot])
        /\ fetch' = FetchTask("await", peer_id, orders, slot, None,
                              fetch.overflow_checks)

\* The drain task ends or suspends without making a call.
FetchEnds(pc, orders, result) ==
    /\ fetch' = FetchTask(pc, fetch.peer_id, orders, NoSlot, result,
                          fetch.overflow_checks)
    /\ UNCHANGED <<slots, delivered, returned, mailbox, parked, rpc_log>>

\* The selection loop: the table is read under the read lock, the first peer
\* in iteration order passing the test is taken (any of them: a HashMap
\* iterates in no particular order) and the first call is made; when no peer
\* passes, the lock is released and the task sleeps.
FetchFindPeer ==
    /\ Running
    /\ fetch.pc = "find"
    /\ LET candidates == {p \in DOMAIN known_peers : supports_order_sync(known_peers[p])}
       IN  IF candidates = {}
           THEN /\ fetch' = [fetch EXCEPT !.pc = "sleep"]
                /\ UNCHANGED <<slots, delivered, returned, mailbox, parked, rpc_log>>
           ELSE \E peer_id \in candidates : FetchCall(peer_id, RequestDefault, <<>>)
    /\ read_lock' = read_lock_at_await(fetch'.pc = "await")
    /\ UNCHANGED <<next_request_id, request_frames, response_frames,
                   pending_requests, event, awaiting, message_vars, nodes_info,
                   sink, calls>>
    /\ UNCHANGED <<run_loop, my_behaviour, order_sync_receiver, behaviour_vars,
                   codec_vars>>

\* sleep(Duration::from_secs(20)) has elapsed.
FetchSleepElapsed ==
    /\ Running
    /\ fetch.pc = "sleep"
    /\ fetch' = [fetch EXCEPT !.pc = "find"]
    /\ UNCHANGED <<order_sync_vars, message_vars, nodes_info, mailbox, parked,
                   rpc_log, sink, calls>>
    /\ UNCHANGED stack_vars

\* The call of the drain task returns, and the task runs to its next await
\* or to its end: an error ends it (the ? of the call); otherwise the next
\* request is derived (page + 1 may panic), the orders are appended,
\* orders.last().unwrap() panics when there is none, and the loop either
\* calls again or ends with Ok(orders), which the main loop writes out.
FetchReceive ==
    /\ Running
    /\ fetch.pc = "await"
    /\ LET poll == ReceiverPoll(slots[fetch.slot])
       IN  /\ poll.tag # "Pending"
           /\ LET result == call_result(poll)
              IN  IF result.tag = "Err"
                  THEN FetchEnds("failed", fetch.orders, Some(result))
                  ELSE LET maybe_request == next_request(result.response,
                                                         fetch.overflow_checks)
                           orders == fetch.orders \o result.response.orders
                       IN  IF maybe_request = Panic
                           THEN FetchEnds("panicked", fetch.orders, Some(result))
                           ELSE IF orders = <<>>
                           THEN FetchEnds("panicked", orders, Some(result))
                           ELSE IF maybe_request = None
                           THEN FetchEnds("done", orders, Some(result))
                           ELSE FetchCall(fetch.peer_id, maybe_request.value, orders)
    /\ sink' = order_json(fetch'.pc, fetch'.orders)
    /\ UNCHANGED <<next_request_id, request_frames, response_frames,
                   pending_requests, event, awaiting, message_vars, nodes_info,
                   calls>>
    /\ UNCHANGED stack_vars

\* Node::run handing the first item to order_sync_send and leaving it in
\* the mailbox.
NodeRunMailbox_kept ==
    /\ Running
    /\ mailbox # <<>>
    /\ LET item == Head(mailbox)
       IN  /\ send(item.peer_id, item.request, item.sender, slots)
           /\ returned' = [returned EXCEPT ![item.sender] = send_request_id]
           /\ awaiting' = awaiting \cup {item.sender}
    /\ UNCHANGED <<mailbox, parked, delivered, nodes_info, fetch, rpc_log, sink, calls>>
    /\ UNCHANGED stack_vars

\* Node::run with a mailbox item ready: the item is taken (which unparks one
\* parked sender) and handed to order_sync_send.
NodeRunMailbox ==
    /\ Running
    /\ mailbox # <<>>
    /\ LET item == Head(mailbox)
       IN  /\ send(item.peer_id, item.request, item.sender, slots)
           /\ returned' = [returned EXCEPT ![item.sender] = send_request_id]
           /\ awaiting' = awaiting \cup {item.sender}
    /\ mailbox' = Tail(mailbox)
    /\ parked' = IF parked = <<>> THEN parked ELSE Tail(parked)
    /\ UNCHANGED <<delivered, nodes_info, fetch, rpc_log, sink, calls>>
    /\ UNCHANGED stack_vars

\* Messages a remote peer answers a request with.
PeerMessages ==
    {MessageRequest(RequestDefault),
     MessageResponse(ResponseDefault),
     MessageResponse([orders |-> <<Order1, Order2>>, complete |-> TRUE,
                      metadata |-> ResponseMetadataV0("abc", 1)]),
     MessageResponse([orders |-> <<Order1>>, complete |-> FALSE,
                      metadata |-> ResponseMetadataV1("0x01")]),
     MessageResponse([orders |-> <<>>, complete |-> FALSE,
                      metadata |-> ResponseMetadataV0("abc", 0)]),
     MessageResponse([orders |-> <<Order2>>, complete |-> FALSE,
                      metadata |-> ResponseMetadataV0("abc", MaxPage)])}

\* Node::run with a swarm event ready: the engine reports the response to a
\* request it has issued.
EngineResponse ==
    /\ Running
    /\ \E request_id \in DOMAIN pending_requests : \E message \in PeerMessages :
          inject_event_Response(request_id, message) /\ HistoryTerminal(request_id)
    /\ UNCHANGED node_vars

\* Node::run with a swarm event ready: the engine reports the failure of a
\* request it has issued.
EngineOutboundFailure ==
    /\ Running
    /\ \E request_id \in DOMAIN pending_requests : \E error \in OutboundFailures :
          inject_event_OutboundFailure(request_id, error)
          /\ HistoryTerminal(request_id)
    /\ UNCHANGED node_vars

\* Node::run with a swarm event ready: an identify payload was received.
IdentifyReceived ==
    /\ Running
    /\ write_lock_free
    /\ \E peer_id \in Peers : \E info \in IdentifyInfos :
          inject_event_IdentifyReceived(peer_id, info)
    /\ UNCHANGED <<order_sync_vars, message_vars, fetch, mailbox, parked, rpc_log,
                   sink, calls>>
    /\ UNCHANGED stack_vars

\* Node::run with a swarm event ready: a ping succeeded.
PingSuccess ==
    /\ Running
    /\ write_lock_free
    /\ \E peer \in Peers : \E rtt \in Rtts : inject_event_PingSuccess(peer, rtt)
    /\ UNCHANGED <<order_sync_vars, message_vars, fetch, mailbox, parked, rpc_log,
                   sink, calls>>
    /\ UNCHANGED stack_vars

\* The sigterm arm of the main loop: the interrupt signal has arrived, and
\* the loop breaks.
Sigterm ==
    /\ Running
    /\ run_loop' = "break"
    /\ UNCHANGED <<order_sync_vars, message_vars, nodes_info, fetch, mailbox, parked,
                   rpc_log, sink, calls, read_lock, my_behaviour, order_sync_receiver,
                   behaviour_vars, codec_vars>>

\* run(): the node is created and the drain task is about to be polled, in
\* a build with or without overflow checks.
NodeInit ==
    /\ OrderSyncInit
    /\ response = ResponseDefault
    /\ derived = Unset
    /\ previous_request = RequestDefault
    /\ encoded = Unset
    /\ decoded = Unset
    /\ NodeNew
    /\ NoStream
    /\ \E overflow_checks \in BOOLEAN :
          fetch = FetchTask("find", NoPeer, <<>>, NoSlot, None, overflow_checks)

NodeNext ==
    \/ FetchFindPeer
    \/ FetchSleepElapsed
    \/ FetchReceive
    \/ NodeRunMailbox
    \/ EngineResponse
    \/ EngineOutboundFailure
    \/ IdentifyReceived
    \/ PingSuccess
    \/ Sigterm

SpecNode == NodeInit /\ [][NodeNext]_vars

(***************************************************************************)
(* Cloned OrderSyncRpc handles calling concurrently                        *)
(***************************************************************************)

\* The state of a handle inside OrderSyncRpc::call: "sending" while
\* suspended in self.sender.send(..).await, "receiving" while suspended in
\* receiver.await.
InCall(pc, peer_id, request, slot) ==
    [pc |-> pc, peer_id |-> peer_id, request |-> request, slot |-> slot,
     result |-> None]

\* A oneshot channel both ends of which have been dropped unused.
DroppedChannel == [tx |-> "dropped", rx |-> "dropped", value |-> None]

\* The conversion answering Err(QueueFull) to every error of the mailbox.
FromSendError_queue_full(err) == Err(QueueFull)

\* The ? of self.sender.send(..).await: From<mpsc::SendError> for Error.
FromSendError(err) ==
    IF err = "full"
    THEN Err(QueueFull)
    ELSE IF err = "disconnected"
    THEN Err(Dropped)
    ELSE Err([kind |-> "SendError"])

\* OrderSyncRpc::call up to its first suspension: a fresh oneshot channel;
\* send fails at once when the Receiver of the mailbox is gone, and the
\* channel is dropped with the request; otherwise the request is queued at
\* once when the handle's Sender is not parked, and the call waits in send
\* when it is.
CallStart ==
    /\ Len(slots) < MaxSends
    /\ \E handle \in Handles : \E peer_id \in Peers : \E request \in SendRequests :
          LET slot == Len(slots) + 1
              item == [peer_id |-> peer_id, request |-> request, sender |-> slot]
          IN  /\ calls[handle].pc = "idle"
              /\ slots' = Append(slots, IF order_sync_receiver = "dropped"
                                        THEN DroppedChannel
                                        ELSE NewChannel)
              /\ delivered' = Append(delivered, 0)
              /\ returned' = Append(returned, NoRequestId)
              /\ IF order_sync_receiver = "dropped"
                 THEN /\ UNCHANGED <<mailbox, parked>>
                      /\ calls' = [calls EXCEPT
                                     ![handle] = IdleCall(Some(FromSendError("disconnected")))]
                 ELSE IF MailboxReady(handle)
                 THEN /\ MailboxPush(handle, item)
                      /\ calls' = [calls EXCEPT
                                     ![handle] = InCall("receiving", peer_id, request, slot)]
                 ELSE /\ UNCHANGED <<mailbox, parked>>
                      /\ calls' = [calls EXCEPT
                                     ![handle] = InCall("sending", peer_id, request, slot)]
    /\ UNCHANGED <<next_request_id, request_frames, response_frames,
                   pending_requests, event, awaiting, message_vars, nodes_info,
                   fetch, rpc_log, sink>>
    /\ UNCHANGED stack_vars

\* self.sender.send(..).await resumes once the handle's Sender is unparked:
\* the request is queued, or send fails because the Receiver of the mailbox
\* is gone.
CallSendReady ==
    /\ \E handle \in Handles :
          /\ calls[handle].pc = "sending"
          /\ MailboxReady(handle)
          /\ IF order_sync_receiver = "dropped"
             THEN /\ slots' = [slots EXCEPT ![calls[handle].slot] = DroppedChannel]
                  /\ calls' = [calls EXCEPT
                                 ![handle] = IdleCall(Some(FromSendError("disconnected")))]
                  /\ UNCHANGED <<mailbox, parked>>
             ELSE /\ MailboxPush(handle, [peer_id |-> calls[handle].peer_id,
                                          request |-> calls[handle].request,
                                          sender |-> calls[handle].slot])
                  /\ calls' = [calls EXCEPT ![handle].pc = "receiving"]
                  /\ UNCHANGED slots
    /\ UNCHANGED <<next_request_id, request_frames, response_frames,
                   pending_requests, delivered, event, returned, awaiting,
                   message_vars, nodes_info, fetch, rpc_log, sink>>
    /\ UNCHANGED stack_vars

\* receiver.await? resumes and call returns.
CallReturn ==
    /\ \E handle \in Handles :
          LET poll == ReceiverPoll(slots[calls[handle].slot])
          IN  /\ calls[handle].pc = "receiving"
              /\ poll.tag # "Pending"
              /\ calls' = [calls EXCEPT ![handle] = IdleCall(Some(call_result(poll)))]
    /\ UNCHANGED <<order_sync_vars, message_vars, nodes_info, fetch, mailbox,
                   parked, rpc_log, sink>>
    /\ UNCHANGED stack_vars

\* The caller drops the future of call before it has returned: the Receiver
\* goes, and with it the Sender when the request was not queued yet.
CallDropped ==
    /\ \E handle \in Handles :
          LET slot == calls[handle].slot
          IN  /\ calls[handle].pc \in {"sending", "receiving"}
              /\ slots[slot].value = None
              /\ slots' = IF calls[handle].pc = "sending"
                          THEN [slots EXCEPT ![slot].rx = "dropped",
                                             ![slot].tx = "dropped"]
                          ELSE [slots EXCEPT ![slot].rx = "dropped"]
              /\ calls' = [calls EXCEPT ![handle] = IdleCall(None)]
    /\ UNCHANGED <<next_request_id, request_frames, response_frames,
                   pending_requests, delivered, event, returned, awaiting,
                   message_vars, nodes_info, fetch, mailbox, parked, rpc_log, sink>>
    /\ UNCHANGED stack_vars

\* The Node is dropped while handles are in use: the swarm goes, and with
\* it the Senders of the pending requests; the Receiver of the mailbox closes
\* the channel, which wakes every parked Sender, and drops the requests still
\* queued with their Senders.
NodeDropped ==
    /\ order_sync_receiver = "open"
    /\ order_sync_receiver' = "dropped"
    /\ LET lost == {pending_requests[id] : id \in DOMAIN pending_requests}
                       \cup {mailbox[i].sender : i \in 1 .. Len(mailbox)}
       IN  slots' = [i \in 1 .. Len(slots) |->
                        IF i \in lost THEN DropSender(slots[i]) ELSE slots[i]]
    /\ pending_requests' = [k \in {} |-> NoSlot]
    /\ mailbox' = <<>>
    /\ parked' = <<>>
    /\ UNCHANGED <<next_request_id, request_frames, response_frames, delivered,
                   event, returned, awaiting, message_vars, nodes_info, fetch,
                   rpc_log, sink, calls, run_loop, read_lock, my_behaviour,
                   behaviour_vars, codec_vars>>

\* A node whose handles are used by callers; no drain task.
RpcInit ==
    /\ OrderSyncInit
    /\ response = ResponseDefault
    /\ derived = Unset
    /\ previous_request = RequestDefault
    /\ encoded = Unset
    /\ decoded = Unset
    /\ NodeNew
    /\ NoStream
    /\ fetch = FetchTask("none", NoPeer, <<>>, NoSlot, None, FALSE)

RpcNext ==
    \/ CallStart
    \/ CallSendReady
    \/ CallReturn
    \/ CallDropped
    \/ NodeRunMailbox
    \/ EngineResponse
    \/ EngineOutboundFailure

SpecRpc == RpcInit /\ [][RpcNext]_vars

\* Node::run with a swarm event ready: the engine reports the response to a
\* request it has issued; the peer answers with a complete page.
EngineResponseComplete ==
    /\ Running
    /\ \E request_id \in DOMAIN pending_requests :
          inject_event_Response(request_id, MessageResponse(ResponseDefault))
          /\ HistoryTerminal(request_id)
    /\ UNCHANGED node_vars

\* The handles in use while the Node can be dropped under them.
RpcDropNext ==
    \/ CallStart
    \/ CallSendReady
    \/ CallReturn
    \/ CallDropped
    \/ NodeDropped
    \/ NodeRunMailbox
    \/ EngineResponseComplete
    \/ EngineOutboundFailure

SpecRpcDrop == RpcInit /\ [][RpcDropNext]_vars

\* The handles in use by callers that await their calls to the end.  Such a
\* caller never starts a call on a parked Sender: its Sender is woken when an
\* earlier request leaves the mailbox, which is before its own request does
\* and so before its call returns.  CallStart therefore always queues at once
\* here and CallSendReady has no step to take.
RpcLiveNext ==
    \/ CallStart
    \/ CallReturn
    \/ NodeRunMailbox
    \/ EngineResponseComplete
    \/ EngineOutboundFailure

\* The event loop keeps being driven: a queued request is taken by Node::run.
\* The engine reports on every id it has issued.  A caller whose reply slot
\* is resolved is woken and polled.
RpcFairness ==
    /\ WF_vars(NodeRunMailbox)
    /\ \A request_id \in RequestIds :
           WF_vars((EngineResponseComplete \/ EngineOutboundFailure)
                   /\ event'.request_id = request_id)
    /\ \A handle \in Handles :
           WF_vars(CallReturn /\ calls[handle].pc = "receiving"
                              /\ calls'[handle].pc = "idle")

SpecRpcLive == RpcInit /\ [][RpcLiveNext]_vars /\ RpcFairness

TypeOK ==
    /\ next_request_id \in RequestIds
    /\ request_frames = Len(slots)
    /\ Len(delivered) = Len(slots)
    /\ Len(returned) = Len(slots)
    /\ Len(slots) <= MaxSends
    /\ DOMAIN pending_requests \subseteq RequestIds
    /\ \A id \in DOMAIN pending_requests : pending_requests[id] \in 1 .. Len(slots)

(***************************************************************************)
(* Properties                                                              *)
(***************************************************************************)

Slots == 1 .. Len(slots)

TerminalKinds == {"Response", "OutboundFailure"}

\* The step handled a Response or OutboundFailure event whose id was in the
\* pending table.
TerminalForPending ==
    /\ event'.kind \in TerminalKinds
    /\ event'.request_id \in DOMAIN pending_requests

\* Every pending entry other than the one of id is kept as it was.
OtherEntriesKept(id) ==
    \A k \in DOMAIN pending_requests \ {id} :
        k \in DOMAIN pending_requests' /\ pending_requests'[k] = pending_requests[k]

\* C1: whatever the sequence of send calls and engine events, the reply slot
\* of each send has had at most one result stored into it.
C1_AtMostOneResult == \A s \in Slots : delivered[s] <= 1

\* A slot holds its result and a further terminal event for the same id has
\* arrived since and found nothing to deliver to.
C1_Witness ==
    /\ event.kind \in TerminalKinds
    /\ event.slot = NoSlot
    /\ \E s \in Slots : delivered[s] = 1 /\ returned[s] = event.request_id

\* C2: a Response event for a pending id whose payload is a Response message
\* passes Ok(that response) to the id's sender, which stores it in the slot
\* when the receiver is still there, and the id leaves the pending table.
C2_ResponseDeliversOk ==
    [][(TerminalForPending /\ event'.kind = "Response"
            /\ event'.payload.type = "Response")
        => LET id == event'.request_id
               s  == pending_requests[id]
           IN  /\ id \notin DOMAIN pending_requests'
               /\ event'.slot = s
               /\ event'.result = Ok(event'.payload.body)
               /\ slots'[s].tx = "sent"
               /\ slots[s].rx = "waiting"
                     => /\ slots'[s].value = Some(Ok(event'.payload.body))
                        /\ delivered'[s] = delivered[s] + 1]_vars

\* A waiting caller's slot holds Ok of a response that is not the default one.
C2_Witness ==
    /\ event.kind = "Response"
    /\ event.slot # NoSlot
    /\ event.payload.type = "Response"
    /\ event.payload.body # ResponseDefault
    /\ slots[event.slot].value = Some(Ok(event.payload.body))
    /\ event.request_id \notin DOMAIN pending_requests

\* C3: a Response event for a pending id whose payload is a Request message
\* passes Err(UnexpectedRequest) to the id's sender, never Ok, and the id
\* leaves the pending table.
C3_RequestPayloadIsError ==
    [][(TerminalForPending /\ event'.kind = "Response"
            /\ event'.payload.type = "Request")
        => LET id == event'.request_id
               s  == pending_requests[id]
           IN  /\ id \notin DOMAIN pending_requests'
               /\ event'.slot = s
               /\ event'.result = Err(UnexpectedRequest)
               /\ slots'[s].tx = "sent"
               /\ slots'[s].value \in {None, Some(Err(UnexpectedRequest))}
               /\ slots[s].rx = "waiting"
                     => /\ slots'[s].value = Some(Err(UnexpectedRequest))
                        /\ delivered'[s] = delivered[s] + 1]_vars

C3_Witness ==
    /\ event.kind = "Response"
    /\ event.slot # NoSlot
    /\ event.payload.type = "Request"
    /\ slots[event.slot].value = Some(Err(UnexpectedRequest))
    /\ event.request_id \notin DOMAIN pending_requests

\* C4: an OutboundFailure(e) event for a pending id passes
\* Err(OutboundFailure(e)), with the same e, to the id's sender, and the id
\* leaves the pending table.
C4_FailureDeliversError ==
    [][(TerminalForPending /\ event'.kind = "OutboundFailure")
        => LET id == event'.request_id
               s  == pending_requests[id]
               e  == event'.payload.body
           IN  /\ id \notin DOMAIN pending_requests'
               /\ event'.slot = s
               /\ event'.result = Err(OutboundFailure(e))
               /\ slots'[s].tx = "sent"
               /\ slots[s].rx = "waiting"
                     => /\ slots'[s].value = Some(Err(OutboundFailure(e)))
                        /\ delivered'[s] = delivered[s] + 1]_vars

C4_Witness ==
    /\ event.kind = "OutboundFailure"
    /\ event.slot # NoSlot
    /\ slots[event.slot].value = Some(Err(OutboundFailure(event.payload.body)))
    /\ event.request_id \notin DOMAIN pending_requests

\* C5: a Response or OutboundFailure event for an id that is not in the
\* pending table delivers nothing and leaves the pending table as it was.
C5_AbsentIdIsDropped ==
    [][(event'.kind \in TerminalKinds
            /\ event'.request_id \notin DOMAIN pending_requests)
        => /\ UNCHANGED <<pending_requests, slots, delivered>>
           /\ event'.slot = NoSlot
           /\ event'.log = "error"]_vars

\* An event for an id that was sent and has already been terminated arrives
\* while another request is pending.
C5_Witness ==
    /\ event.kind \in TerminalKinds
    /\ event.slot = NoSlot
    /\ event.log = "error"
    /\ DOMAIN pending_requests # {}
    /\ \E s \in Slots : returned[s] = event.request_id /\ slots[s].tx = "sent"

\* C6: an inbound request event (whatever its payload), an InboundFailure
\* event and a ResponseSent event emit no response frame, deliver nothing to
\* any reply slot and leave the pending table unchanged.
C6_InboundIsIgnored ==
    [][event'.kind \in {"Request", "InboundFailure", "ResponseSent"}
        => UNCHANGED <<pending_requests, slots, delivered, response_frames,
                       request_frames>>]_vars

C6_Witness ==
    /\ event.kind = "Request"
    /\ event.payload.type = "Request"
    /\ event.request_id \in DOMAIN pending_requests
    /\ slots[pending_requests[event.request_id]].tx = "alive"
    /\ response_frames = 0

\* C7: when the caller has dropped the receiving end and a Response or
\* OutboundFailure event for that id arrives, the send fails and the result
\* is discarded: the entry leaves the pending table (so a later event for
\* the id finds it absent), nothing is stored in any slot, and every other
\* slot and entry is as before.
C7_CancelledDeliveryIsDiscarded ==
    [][(TerminalForPending
            /\ slots[pending_requests[event'.request_id]].rx = "dropped")
        => LET id == event'.request_id
               s  == pending_requests[id]
           IN  /\ id \notin DOMAIN pending_requests'
               /\ OtherEntriesKept(id)
               /\ ~event'.send_ok
               /\ event'.log = "warn"
               /\ slots'[s].value = None
               /\ delivered' = delivered
               /\ \A t \in Slots \ {s} : slots'[t] = slots[t]]_vars

\* A delivery failed on a dropped receiver while another request was pending
\* with a waiting caller.
C7_Witness ==
    /\ event.kind \in TerminalKinds
    /\ event.slot # NoSlot
    /\ ~event.send_ok
    /\ slots[event.slot].value = None
    /\ event.request_id \notin DOMAIN pending_requests
    /\ \E k \in DOMAIN pending_requests : slots[pending_requests[k]].rx = "waiting"

\* C8 as stated: the pending table holds exactly the ids returned by send for
\* which no terminal event, a cancellation by the caller included, has
\* arrived.
C8_Original ==
    DOMAIN pending_requests
        = {returned[s] : s \in {t \in awaiting : slots[t].rx # "dropped"}}

\* C8 as amended: the pending table holds exactly the ids returned by send
\* for which no Response or OutboundFailure event has arrived since; each
\* entry is the sender of the latest such send.  A cancellation by the
\* caller does not remove the entry.
C8_PendingIsAwaiting ==
    /\ DOMAIN pending_requests = {returned[s] : s \in awaiting}
    /\ \A id \in DOMAIN pending_requests :
          /\ pending_requests[id] \in awaiting
          /\ returned[pending_requests[id]] = id
          /\ slots[pending_requests[id]].tx = "alive"

\* A cancelled request is still in the table, and another id has been
\* removed by its terminal event.
C8_Witness ==
    /\ \E id \in DOMAIN pending_requests :
          slots[pending_requests[id]].rx = "dropped"
    /\ \E s \in Slots : slots[s].tx = "sent" /\ returned[s] \notin DOMAIN pending_requests

\* C9: when send obtains an id that is already in the pending table, the
\* entry already installed is kept with its sender alive and the new sender
\* is dropped.
C9_ExistingEntryKept ==
    [][(event'.kind = "send" /\ event'.request_id \in DOMAIN pending_requests)
        => LET id == event'.request_id
           IN  /\ pending_requests'[id] = pending_requests[id]
               /\ slots'[pending_requests[id]].tx = "alive"
               /\ slots'[Len(slots')].tx = "dropped"]_vars

\* C10: next_request of a Response with complete = true is None, whatever
\* its metadata variant and orders.
C10_CompleteHasNoNextRequest ==
    (derived # Unset /\ response.complete) => derived = None

C10_Witness ==
    /\ derived = None
    /\ response.complete
    /\ response.metadata.variant = "V1"
    /\ response.orders # <<>>

\* The subprotocol name the wire format gives a metadata variant.
VariantName(metadata) == ResponseMetadataTag(metadata)

\* C11: the request derived from an incomplete response has exactly one
\* subprotocol name and one metadata entry, both of the variant of the
\* response's metadata, with the resume field advanced: a V0 page is the
\* response's page plus one, a V1 min_order_hash is the response's
\* next_min_order_hash.
C11_IncompleteDerivesAdvancedRequest ==
    (derived # Unset /\ ~response.complete) =>
        /\ derived.tag = "Some"
        /\ Len(derived.value.subprotocols) = 1
        /\ Len(derived.value.metadata) = 1
        /\ derived.value.subprotocols[1] = VariantName(response.metadata)
        /\ derived.value.metadata[1].variant = response.metadata.variant
        /\ response.metadata.variant = "V0" =>
               derived.value.metadata[1].page = response.metadata.page + 1
        /\ response.metadata.variant = "V1" =>
               derived.value.metadata[1].min_order_hash
                   = response.metadata.next_min_order_hash

\* C12: in the request derived from an incomplete response every metadata
\* entry carries the default order filter, whatever filter the previous
\* request used, and for a V0 response the entry is V0 with the response's
\* snapshot id.
C12_DerivedFilterIsDefault ==
    derived.tag = "Some" =>
        \A i \in 1 .. Len(derived.value.metadata) :
            /\ derived.value.metadata[i].order_filter = OrderFilterDefault
            /\ response.metadata.variant = "V0" =>
                   /\ derived.value.metadata[i].variant = "V0"
                   /\ derived.value.metadata[i].snapshot_id
                          = response.metadata.snapshot_id

C12_Witness ==
    /\ derived.tag = "Some"
    /\ previous_request = RequestFromOrderFilter(mainnet_v3)
    /\ response.metadata.variant = "V0"
    /\ response.metadata.snapshot_id = "abc"

\* The subprotocol list and the metadata list have one length, and each
\* subprotocol name is the name of the variant of the metadata entry at its
\* position.
ListsAgree(req) ==
    /\ Len(req.subprotocols) = Len(req.metadata)
    /\ \A i \in 1 .. Len(req.metadata) :
           req.subprotocols[i] = VariantName(req.metadata[i])

\* C13: every request the program builds (the default request, a request
\* built from an order filter, a request derived from a response) has
\* subprotocol and metadata lists of one length whose entries agree position
\* by position.
C13_BuiltRequestListsAgree ==
    /\ ListsAgree(RequestDefault)
    /\ ListsAgree(previous_request)
    /\ derived.tag = "Some" => ListsAgree(derived.value)

C13_Witness ==
    /\ derived.tag = "Some"
    /\ derived.value.metadata[1].variant = "V0"
    /\ previous_request = RequestFromOrderFilter(mainnet_v3)

\* The JSON test_default_request_json expects.
DefaultRequestJson ==
    [type |-> "Request",
     subprotocols |-> <<"/pagination-with-filter/version/1",
                        "/pagination-with-filter/version/0">>,
     metadata |->
        [metadata |->
            <<[minOrderHash |-> "0x0000000000000000000000000000000000000000000000000000000000000000",
               orderfilter |-> [chainID |-> 0, customOrderSchema |-> "{}",
                                exchangeAddress |-> "0x0000000000000000000000000000000000000000"]],
              [snapshotID |-> "", page |-> 0,
               orderfilter |-> [chainID |-> 0, customOrderSchema |-> "{}",
                                exchangeAddress |-> "0x0000000000000000000000000000000000000000"]]>>]]

\* C14: the default request names subprotocol version 1 and then version 0;
\* its metadata is a V1 entry (zero hash, default filter) and then a V0 entry
\* (empty snapshot id, page 0, default filter); written to the wire it is the
\* object of type "Request" with exactly these contents.
C14_DefaultRequestOnTheWire ==
    /\ RequestDefault.subprotocols = <<"/pagination-with-filter/version/1",
                                       "/pagination-with-filter/version/0">>
    /\ RequestDefault.metadata
           = <<[variant |-> "V1", min_order_hash |-> ZeroHash,
                order_filter |-> OrderFilterDefault],
               [variant |-> "V0", snapshot_id |-> "", page |-> 0,
                order_filter |-> OrderFilterDefault]>>
    /\ (previous_request = RequestDefault /\ encoded # Unset
        /\ encoded.type = "Request") => encoded = DefaultRequestJson

C14_Witness ==
    /\ previous_request = RequestDefault
    /\ encoded # Unset
    /\ encoded.type = "Request"

\* C15: reading back the JSON written for Message::Response(r) yields
\* Message::Response(r) again, with every field of r as it was.
C15_ResponseRoundTrip ==
    (decoded # Unset /\ encoded.type = "Response") =>
        decoded = Decoded(MessageResponse(response))

C15_Witness ==
    /\ decoded # Unset
    /\ encoded.type = "Response"
    /\ Len(response.orders) = 2
    /\ response.orders[1] # response.orders[2]
    /\ response.metadata.variant = "V1"

\* The reply slot of the drain task's i-th call holds a result or has lost
\* its Sender.
Resolved(i) ==
    \/ slots[rpc_log[i].slot].value # None
    \/ slots[rpc_log[i].slot].tx # "alive"

\* What the drain task's i-th call returns once its reply slot is resolved.
ResultOf(i) ==
    IF slots[rpc_log[i].slot].value # None
    THEN slots[rpc_log[i].slot].value.value
    ELSE Err(Dropped)

\* The result of the drain task's i-th call has been returned to the task.
Consumed(i) == Resolved(i) /\ (i < Len(rpc_log) \/ fetch.pc # "await")

\* The i-th call of the drain task returned a page.
PageReceived(i) == Consumed(i) /\ ResultOf(i).tag = "Ok"

\* C16: the drain task sends the default request first and then, for each
\* response with complete = false, exactly the request next_request derives
\* from it; at the first response with complete = true it stops, so that the
\* number of its calls is the position of that response.
C16_DrainFollowsNextRequest ==
    /\ rpc_log # <<>> => rpc_log[1].request = RequestDefault
    /\ \A i \in 1 .. Len(rpc_log) :
           PageReceived(i) =>
               IF ResultOf(i).response.complete
               THEN Len(rpc_log) = i
               ELSE /\ Len(rpc_log) > i
                    /\ rpc_log[i + 1].request
                           = next_request(ResultOf(i).response, FALSE).value

RECURSIVE OrdersOfPages(_)
\* The orders of the pages received in the first n calls, in order.
OrdersOfPages(n) ==
    IF n = 0
    THEN <<>>
    ELSE OrdersOfPages(n - 1)
         \o (IF PageReceived(n) THEN ResultOf(n).response.orders ELSE <<>>)

PagesReceived == OrdersOfPages(Len(rpc_log))

\* C17 as stated: the orders of every page received so far have been handed
\* to the order sink, whatever happens to later requests.
C17_Original ==
    PagesReceived # <<>> => (sink # None /\ sink.value = PagesReceived)

\* C17, amended: the orders reach the sink once, all together, when the
\* drain task has ended successfully after a complete response; while the
\* task is still running, and after it has failed or aborted, nothing has
\* been handed to the sink.
C17_OrdersReachSinkOnlyAtEnd ==
    /\ sink # None =>
           /\ fetch.pc = "done"
           /\ sink.value = PagesReceived
           /\ ResultOf(Len(rpc_log)).response.complete
    /\ fetch.pc = "done" => sink # None
    /\ fetch.pc \in {"find", "sleep", "await", "failed", "panicked"} => sink = None

C17_Witness ==
    /\ fetch.pc = "failed"
    /\ Len(rpc_log) >= 2
    /\ PagesReceived # <<>>
    /\ sink = None

\* C18: the drain task has at most one request outstanding: when it has made
\* a later call, every earlier call's reply slot is resolved, and at most one
\* of its requests is in the mailbox or in the pending table.
C18_OneOutstanding ==
    /\ \A i \in 1 .. Len(rpc_log) : i < Len(rpc_log) => Resolved(i)
    /\ Cardinality({i \in 1 .. Len(rpc_log) : ~Resolved(i)}) <= 1
    /\ Len(mailbox) + Cardinality(DOMAIN pending_requests) <= 1

C18_Witness ==
    /\ Len(rpc_log) >= 2
    /\ fetch.pc = "await"
    /\ ~Resolved(Len(rpc_log))
    /\ Cardinality(DOMAIN pending_requests) = 1

\* The table holds an identify payload for the peer and the payload lists
\* the OrderSync protocol.
Advertises(table, peer_id) ==
    /\ peer_id \in DOMAIN table
    /\ table[peer_id].identify.tag = "Some"
    /\ "/0x-mesh/order-sync/version/0" \in table[peer_id].identify.value.protocols

\* C19: the first request of the drain task is issued in a state whose peer
\* table holds, for the peer it goes to, an identify payload listing the
\* OrderSync protocol; every later request goes to that same peer; and the
\* peer handed to send is the peer of the call.
C19_RequestsGoToAdvertisingPeer ==
    [][/\ Len(rpc_log') > Len(rpc_log) =>
              IF rpc_log = <<>>
              THEN Advertises(known_peers, rpc_log'[1].peer_id)
              ELSE rpc_log'[Len(rpc_log')].peer_id = rpc_log[1].peer_id
       /\ request_frames' > request_frames =>
              /\ rpc_log # <<>>
              /\ event'.peer = rpc_log[1].peer_id]_vars

C19_Witness ==
    /\ request_frames > 0
    /\ \E peer_id \in DOMAIN nodes_info :
           /\ peer_id # rpc_log[1].peer_id
           /\ nodes_info[peer_id].identify # None
           /\ ~Advertises(nodes_info, peer_id)

\* C20: a call started on a handle while the mailbox holds as many requests
\* as its buffer is sized for returns Err(QueueFull) and leaves the mailbox
\* as it was.
C20_FullMailboxRefuses ==
    [][\A handle \in Handles :
          (/\ calls[handle].pc = "idle"
           /\ calls'[handle] # calls[handle]
           /\ Len(mailbox) >= request_buffer_size)
          => /\ calls'[handle] = IdleCall(Some(Err(QueueFull)))
             /\ mailbox' = mailbox]_vars

ReplyLost(handle) ==
    /\ calls[handle].pc = "receiving"
    /\ slots[calls[handle].slot].value = None
    /\ slots[calls[handle].slot].tx # "alive"

\* C22: a call whose reply channel has lost its Sender before a result was
\* sent, or which finds the consumer of the mailbox gone, is never left
\* suspended (its next poll completes), and what it returns is Err(Dropped).
C22_LostReplyChannelReturnsDropped ==
    /\ [](\A handle \in Handles :
             /\ ReplyLost(handle) =>
                    ReceiverPoll(slots[calls[handle].slot]).tag = "Canceled"
             /\ (calls[handle].pc = "sending" /\ order_sync_receiver = "dropped")
                    => MailboxReady(handle))
    /\ [][\A handle \in Handles :
             (/\ \/ ReplyLost(handle)
                 \/ /\ order_sync_receiver = "dropped"
                    /\ calls[handle].pc \in {"idle", "sending"}
              /\ calls'[handle] # calls[handle]
              /\ calls'[handle].result # None)
             => calls'[handle] = IdleCall(Some(Err(Dropped)))]_vars

C22_Witness ==
    /\ order_sync_receiver = "dropped"
    /\ \E handle \in Handles :
           /\ calls[handle] = IdleCall(Some(Err(Dropped)))
           /\ slots[Len(slots)] = DroppedChannel
    /\ \E handle \in Handles : \E i \in 1 .. Len(slots) :
           /\ calls[handle] = IdleCall(Some(Err(Dropped)))
           /\ slots[i] = [tx |-> "dropped", rx |-> "waiting", value |-> None]

\* The record the table holds for a peer; a peer it has no record of has
\* neither an identify payload nor a round trip time.
KnownPeer(table, peer) == IF peer \in DOMAIN table THEN table[peer] ELSE PeerInfoNew

\* C23: the known-peer table starts empty; an identify Received event stores
\* its payload in the record of its peer and leaves that record's round
\* trip time and every other record as they were; a ping success stores its
\* round trip time in the record of its peer and leaves that record's
\* identify payload and every other record as they were; no other event
\* changes a record.  Hence every record holds the payload of the last
\* identify Received and the time of the last ping success for its peer.
C23_LastIdentifyAndPingRetained ==
    /\ DOMAIN known_peers = {}
    /\ [][LET e == behaviour_event'
          IN  /\ e.kind = "IdentifyReceived" =>
                    /\ e.peer \in DOMAIN known_peers'
                    /\ known_peers'[e.peer].identify = Some(e.payload.info)
                    /\ known_peers'[e.peer].ping = KnownPeer(known_peers, e.peer).ping
                    /\ \A peer \in Peers \ {e.peer} :
                          KnownPeer(known_peers', peer) = KnownPeer(known_peers, peer)
              /\ e.kind = "Ping" =>
                    /\ e.peer \in DOMAIN known_peers'
                    /\ known_peers'[e.peer].ping = Some(e.payload.rtt)
                    /\ known_peers'[e.peer].identify
                          = KnownPeer(known_peers, e.peer).identify
                    /\ \A peer \in Peers \ {e.peer} :
                          KnownPeer(known_peers', peer) = KnownPeer(known_peers, peer)
              /\ e.kind \notin {"IdentifyReceived", "Ping"} =>
                    \A peer \in Peers :
                       KnownPeer(known_peers', peer) = KnownPeer(known_peers, peer)]_vars

C23_Witness ==
    /\ behaviour_event.kind = "IdentifyReceived"
    /\ known_peers[behaviour_event.peer].identify = Some(behaviour_event.payload.info)
    /\ known_peers[behaviour_event.peer].ping = Some(20)
    /\ \E peer \in DOMAIN known_peers :
           /\ peer # behaviour_event.peer
           /\ known_peers[peer].ping = Some(10)
           /\ known_peers[peer].identify # None
           /\ known_peers[peer].identify # known_peers[behaviour_event.peer].identify

\* The events of the behaviour stack that are only logged.
LoggedEvents ==
    {"PingFailure", "Pong", "IdentifySent", "IdentifyError", "MdnsDiscovered",
     "MdnsExpired", "QueryResult", "RoutingUpdated", "UnroutablePeer",
     "RoutablePeer", "PendingRoutablePeer"}

\* C24: no step removes a peer from the known-peer table, and a ping
\* failure, a Pong, an identify Sent or Error, an mDNS event and a Kademlia
\* event leave the table as it was.
C24_KnownPeersOnlyGrow ==
    [][/\ DOMAIN known_peers \subseteq DOMAIN known_peers'
       /\ behaviour_event'.kind \in LoggedEvents => known_peers' = known_peers]_vars

C24_Witness ==
    /\ behaviour_event.kind = "PingFailure"
    /\ DOMAIN known_peers = Peers
    /\ known_peers[behaviour_event.peer].ping # None

\* C25: a start issues one bootstrap query and remembers its id, and no
\* other step issues a query; a bootstrap result clears the remembered id
\* when it carries that id and is an error or has no bucket remaining, and
\* leaves the remembered id as it was otherwise.
C25_BootstrapIdClearedOnMatchingFinalResult ==
    [][LET e == behaviour_event'
       IN  /\ e.kind = "start" =>
                 /\ kademlia'.next_query_id = kademlia.next_query_id + 1
                 /\ bootstrap_query_id' = Some(kademlia.next_query_id)
           /\ e.kind # "start" => kademlia'.next_query_id = kademlia.next_query_id
           /\ (e.kind = "QueryResult" /\ e.payload.query = "Bootstrap") =>
                 bootstrap_query_id' =
                    IF /\ Some(e.payload.id) = bootstrap_query_id
                       /\ \/ e.payload.result.tag = "Err"
                          \/ e.payload.result.num_remaining = 0
                    THEN None
                    ELSE bootstrap_query_id]_vars

C25_Witness ==
    /\ behaviour_event.kind = "QueryResult"
    /\ behaviour_event.payload.query = "Bootstrap"
    /\ behaviour_event.payload.id = 1
    /\ behaviour_event.payload.result.tag = "Ok"
    /\ bootstrap_query_id = None
    /\ kademlia.next_query_id = 2

\* C26: every pair of a Discovered event is among the addresses of the DHT
\* after the event, and an Expired event removes no address of the DHT.
C26_DiscoveredPairsJoinRoutingTable ==
    [][LET e == behaviour_event'
       IN  /\ e.kind = "MdnsDiscovered" =>
                 \A i \in 1 .. Len(e.payload.list) :
                    e.payload.list[i] \in kademlia'.addresses
           /\ e.kind = "MdnsExpired" =>
                 kademlia.addresses \subseteq kademlia'.addresses]_vars

\* Behaviour::start has returned Ok: the bootstrap query of Discovery::start
\* was issued.
Started == kademlia.next_query_id > 0

C28_ChunkingDoesNotChangeTheValue ==
    /\ [](/\ written \in {Some(message) : message \in StreamMessages}
          /\ buffer \o io = to_vec(written.value)
          /\ read # None
          => /\ read = Some(Decoded(written.value))
             /\ io = "")
    /\ [][read # None => read' = read]_vars

C28_Witness ==
    /\ written = Some(MessageResponse(LongResponse))
    /\ read = Some(Decoded(MessageResponse(LongResponse)))
    /\ Len(buffer) > MAX_SIZE

\* C29: once more than MAX_SIZE bytes are in the buffer and they do not
\* parse, the decoder has returned an error.
C29_AccumulationBounded ==
    (Len(buffer) > MAX_SIZE /\ from_slice(buffer).tag # "Ok")
        => (read # None /\ read.value.tag = "Err")

\* C30: the main loop is left through the interrupt only: whatever the
\* drain task has met, a failed request or a successful one, the node is
\* still driving the swarm and the mailbox, or the interrupt has arrived and
\* the loop has taken its break.
C30_OnlyInterruptEndsLoop == Running \/ run_loop = "break"

C32_OnlyEofErrorsReadOn ==
    /\ [](read = None /\ buffer # "" => from_slice(buffer) = JsonError("Eof"))
    /\ [][read = None /\ written # None =>
             IF buffer' # buffer
             THEN LET result == from_slice(buffer')
                  IN  /\ Len(buffer') > Len(buffer)
                      /\ SubSeq(buffer', 1, Len(buffer)) = buffer
                      /\ IF result = JsonError("Eof")
                         THEN read' = None
                         ELSE read' = Some(result)
             ELSE /\ io = ""
                  /\ read' = Some(UnexpectedEof)]_vars

C32_Witness ==
    /\ read = Some(JsonError("Syntax"))
    /\ io # ""
    /\ Len(buffer) > BlockSize

\* C33: reading back the JSON written for Message::Request(r) yields
\* Message::Request(r) again, and so does parsing the bytes of that JSON:
\* every metadata entry comes back as the variant it was written from, at
\* its place in the list, with its order filter.
C33_RequestRoundTrip ==
    (decoded # Unset /\ encoded.type = "Request") =>
        /\ decoded = Decoded(MessageRequest(previous_request))
        /\ from_slice(to_vec(MessageRequest(previous_request))) = decoded
        /\ \A i \in 1 .. Len(previous_request.metadata) :
               LET entry == encoded.metadata.metadata[i]
               IN  decoded.value.body.metadata[i].variant
                       = IF HasFields(entry, {"snapshotID", "page"}) THEN "V0" ELSE "V1"

C33_Witness ==
    /\ decoded # Unset
    /\ encoded.type = "Request"
    /\ Len(previous_request.metadata) = 2
    /\ previous_request.metadata[1].variant = "V0"
    /\ previous_request.metadata[1].snapshot_id = "abc"
    /\ previous_request.metadata[1].order_filter = mainnet_v3
    /\ previous_request.metadata[2].variant = "V1"

\* C34: an item leaves the mailbox only from its head and only into
\* order_sync_send, which is called with the item's peer, request and reply
\* slot; order_sync_send is called only for an item that leaves the mailbox
\* in that step; and any other step, a swarm event among them, leaves the
\* queued items as they are, in their order.
C34_MailboxItemsForwardedOnce ==
    [][/\ Len(mailbox') < Len(mailbox) =>
              /\ mailbox' = Tail(mailbox)
              /\ request_frames' = request_frames + 1
              /\ event'.kind = "send"
              /\ event'.peer = Head(mailbox).peer_id
              /\ event'.payload = MessageRequest(Head(mailbox).request)
              /\ pending_requests'[event'.request_id] = Head(mailbox).sender
       /\ request_frames' # request_frames =>
              /\ request_frames' = request_frames + 1
              /\ mailbox # <<>>
              /\ mailbox' = Tail(mailbox)
       /\ Len(mailbox') >= Len(mailbox) =>
              SubSeq(mailbox', 1, Len(mailbox)) = mailbox]_vars

C34_Witness ==
    /\ event.kind = "Response"
    /\ Len(mailbox) >= 2
    /\ request_frames >= 1
    /\ mailbox[1].sender # mailbox[2].sender

\* C35: a Response or OutboundFailure event for request id X leaves every
\* other entry of the pending table in place with its reply slot, adds no
\* entry, and leaves every reply slot but the one of X as it was.
C35_OtherEntriesUntouched ==
    [][event'.kind \in TerminalKinds =>
          LET X == event'.request_id
          IN  /\ \A id \in DOMAIN pending_requests \ {X} :
                     /\ id \in DOMAIN pending_requests'
                     /\ pending_requests'[id] = pending_requests[id]
              /\ DOMAIN pending_requests' \subseteq DOMAIN pending_requests
              /\ Len(slots') = Len(slots)
              /\ \A s \in 1 .. Len(slots) :
                     (X \notin DOMAIN pending_requests \/ s # pending_requests[X])
                         => /\ slots'[s] = slots[s]
                            /\ delivered'[s] = delivered[s]]_vars

C35_Witness ==
    /\ event.kind \in TerminalKinds
    /\ event.slot # NoSlot
    /\ event.send_ok
    /\ \E id \in DOMAIN pending_requests :
           /\ id # event.request_id
           /\ slots[pending_requests[id]] = NewChannel

\* C36: with the event loop driven and the engine reporting on every id it
\* issued, a call whose request has entered the mailbox returns a result,
\* Ok or Err, to its caller.
C36_QueuedCallReturns ==
    \A handle \in Handles :
        (calls[handle].pc = "receiving")
            ~> (/\ calls[handle].pc = "idle"
                /\ calls[handle].result # None
                /\ calls[handle].result.value.tag \in {"Ok", "Err"})

C36_Witness ==
    /\ calls["rpc1"].pc = "idle"
    /\ calls["rpc1"].result # None
    /\ calls["rpc1"].result.value.tag = "Ok"
    /\ calls["rpc2"].pc = "receiving"
    /\ request_frames >= 2

\* C37: when the first page the drain task receives carries no orders, the
\* task does not abort: after a complete page it has finished with the
\* orders accumulated, none, and after an incomplete page it has made its
\* next call.
C37_EmptyFirstPageHandled ==
    (/\ rpc_log # <<>>
     /\ PageReceived(1)
     /\ ResultOf(1).response.orders = <<>>)
        => /\ fetch.pc # "panicked"
           /\ IF ResultOf(1).response.complete
              THEN fetch.pc = "done" /\ fetch.orders = <<>>
              ELSE Len(rpc_log) >= 2

\* C38: for a V0 response with complete = false, whatever its page, the
\* largest one included, a request is derived and its page is strictly
\* greater than the page of the response.
C38_PageStrictlyAdvances ==
    (/\ derived # Unset
     /\ ~response.complete
     /\ response.metadata.variant = "V0")
        => /\ derived.tag = "Some"
           /\ derived.value.metadata[1].variant = "V0"
           /\ derived.value.metadata[1].page > response.metadata.page

\* The places in the history of identify payloads that list the OrderSync
\* protocol.
Listing == {i \in 1 .. Len(my_behaviour.received) :
               OrderSyncProtocol \in my_behaviour.received[i].protocols}

RpcLiveNeverSending == \A handle \in Handles : calls[handle].pc # "sending"

=============================================================================
